---- MODULE Spec2Model ----
(***************************************************************************)
(* Plantation management system: the PlantLot / PlantSpecies models, the   *)
(* lot controller and the QR controller, as a state machine over the       *)
(* document store.                                                         *)
(*                                                                         *)
(* Conventions.  A JavaScript string that the code transforms (trim,       *)
(* toUpperCase, regular expression match) is a sequence of one-character   *)
(* strings.  An optional number is <<>> (undefined) or <<n>>.  An optional *)
(* identifier is the string "undefined" or the identifier.  Time is in     *)
(* milliseconds, as Date arithmetic is in the code.                        *)
(***************************************************************************)
EXTENDS Integers, Sequences, FiniteSets, TLC

\* ------------------------------------------------------------------ bounds

MaxLots == 2          \* lot documents ever inserted (ObjectIds handed out)
MaxSpecies == 2       \* species documents ever inserted
MaxTicks == 4         \* clock advances, each of half a day
MaxMeasurements == 2  \* growth measurements appended to one in-memory document
MaxBatch == 2         \* lot ids in one batch QR request
MaxHealthRecords == 2 \* health records appended to one in-memory document
MaxSaves == 3         \* calls of save() on one in-memory User document
MaxPhotos == 2        \* photos of one lot

\* ------------------------------------------------------- program constants

DayMs == 86400000     \* 1000 * 60 * 60 * 24
LotIdMaxLength == 20
MaxBatchSize == 50

HalfDay == DayMs \div 2

Procs == {1, 2}       \* concurrent requests / holders of an in-memory document

Undefined == "undefined"
NoNum == <<>>
Some(n) == <<n>>
Defined(x) == x # <<>>
Val(x) == x[1]

Users == {"u1", "u2"}
Roles == {"manager", "field", "analyst"}
HealthStatuses == {"excellent", "good", "fair", "poor", "diseased", "dead"}
YieldUnits == {"kg", "g", "tons", "pieces", "bunches", "liters"}
HarvestQualities == {"premium", "standard", "below-standard", "rejected"}

\* ---------------------------------------------------------------- strings

Upper(c) == CASE c = "a" -> "A" [] c = "b" -> "B" [] c = "t" -> "T" [] OTHER -> c

ToUpperCase(s) == [i \in 1..Len(s) |-> Upper(s[i])]

RECURSIVE TrimLeft(_)
TrimLeft(s) == IF s # <<>> /\ Head(s) = " " THEN TrimLeft(Tail(s)) ELSE s

RECURSIVE TrimRight(_)
TrimRight(s) ==
    IF s # <<>> /\ s[Len(s)] = " " THEN TrimRight(SubSeq(s, 1, Len(s) - 1)) ELSE s

Trim(s) == TrimLeft(TrimRight(s))

\* /^[A-Z0-9-]+$/ over the alphabet of the model
LotIdChars == {"A", "B", "T", "0", "1", "-"}
MatchLotId(s) == Len(s) > 0 /\ \A i \in 1..Len(s) : s[i] \in LotIdChars

\* /^[A-Z0-9]+$/
SpeciesCodeChars == {"A", "B", "T", "0", "1"}
MatchSpeciesCode(s) == Len(s) > 0 /\ \A i \in 1..Len(s) : s[i] \in SpeciesCodeChars

\* the schema setters of lotId: trim, uppercase
LotIdSetterNoUpper(raw) == Trim(raw)
LotIdSetter(raw) == ToUpperCase(Trim(raw))

SpeciesCodeSetter(raw) == ToUpperCase(Trim(raw))

\* ------------------------------------------------------------------ state

VARIABLES
    now,        \* the wall clock, ms
    species,    \* the PlantSpecies collection: _id -> document
    lots,       \* the PlantLot collection: _id -> document
    nextId,     \* the next ObjectId of a lot
    doc,        \* per holder: <<>> or <<d>>, d an in-memory PlantLot document
    pend,       \* per request: <<>> or <<r>>, r a createLot between two awaits
    resp,       \* what the last finished operation answered
    users,      \* the User collection: _id -> document
    udoc        \* per holder: <<>> or <<u>>, u an in-memory User document

vars == <<now, species, lots, nextId, doc, pend, resp, users, udoc>>

\* every operation that answers flips resp.tog, so that a step that answers
\* is told from one that does not even when the answer repeats
Answer(r) == r @@ [tog |-> 1 - resp.tog]
Answered == resp'.tog # resp.tog

Init ==
    /\ now = 0
    /\ species = << >>
    /\ lots = << >>
    /\ nextId = 1
    /\ doc = [p \in Procs |-> <<>>]
    /\ pend = [p \in Procs |-> <<>>]
    /\ resp = [op |-> "none", tog |-> 0]
    /\ users = << >>
    /\ udoc = [p \in Procs |-> <<>>]

\* the clock advances
Tick ==
    /\ now < MaxTicks * HalfDay
    /\ now' = now + HalfDay
    /\ UNCHANGED <<users, udoc, species, lots, nextId, doc, pend, resp>>

\* ----------------------------------------------------- JavaScript objects

\* obj.k: the value of the property, undefined when the object has none
Prop(obj, k) == IF k \in DOMAIN obj THEN obj[k] ELSE Undefined

\* !obj.k for a numeric property: undefined and 0 are falsy
FalsyNum(obj, k) == k \notin DOMAIN obj \/ obj[k] = 0

\* ----------------------------------------------------------- PlantSpecies

\* the document new PlantSpecies(f) holds after the setters and defaults
NewSpeciesDoc(f, id) ==
    [_id |-> id,
     name |-> f.name,
     code |-> SpeciesCodeSetter(f.code),
     minHeight |-> f.minHeight,
     harvestDays |-> f.harvestDays,
     isActive |-> IF "isActive" \in DOMAIN f THEN f.isActive ELSE TRUE,
     createdBy |-> f.createdBy]
    @@ (IF "maxHeight" \in DOMAIN f /\ Defined(f.maxHeight)
        THEN [maxHeight |-> f.maxHeight] ELSE << >>)

\* the validators of the maxHeight path (declared by the PlantSpecies schema
\* that has one): min 0, and !value || value >= this.minHeight, where 0 is
\* falsy
ValidMaxHeight(s) ==
    "maxHeight" \in DOMAIN s =>
        /\ Val(s.maxHeight) >= 0
        /\ (Val(s.maxHeight) = 0 \/ Val(s.maxHeight) >= s.minHeight)

ValidSpecies(s) ==
    /\ s.name # Undefined
    /\ MatchSpeciesCode(s.code)
    /\ s.minHeight >= 0
    /\ s.harvestDays >= 1
    /\ ValidMaxHeight(s)
    /\ s.createdBy # Undefined

\* the unique indexes of name and code
SpeciesIndexFree(s) ==
    \A i \in DOMAIN species : species[i].name # s.name /\ species[i].code # s.code

\* PlantSpecies.create(f)
PlantSpeciesCreate(f) ==
    LET id == Cardinality(DOMAIN species) + 1
        s == NewSpeciesDoc(f, id)
        ok == ValidSpecies(s) /\ SpeciesIndexFree(s)
    IN  /\ id <= MaxSpecies
        /\ species' = IF ok THEN species @@ (id :> s) ELSE species
        /\ resp' = Answer([op |-> "PlantSpecies.create", ok |-> ok])
        /\ UNCHANGED <<users, udoc, now, lots, nextId, doc, pend>>

\* PlantSpecies.findByCode(code): findOne({code: code.toUpperCase(),
\* isActive: true}); the filter is cast with the setters of the code path.
\* The answer is <<>> (null) or <<the document>>.
FindByCodeResultAnyCode(raw) ==
    LET hits == {i \in DOMAIN species : species[i].isActive}
    IN  IF hits = {} THEN <<>> ELSE <<species[CHOOSE i \in hits : \A j \in hits : i <= j]>>
FindByCodeResult(raw) ==
    LET code == SpeciesCodeSetter(ToUpperCase(raw))
        hits == {i \in DOMAIN species : species[i].code = code /\ species[i].isActive}
    IN  IF hits = {} THEN <<>> ELSE <<species[CHOOSE i \in hits : \A j \in hits : i <= j]>>

FindByCode(raw) ==
    /\ resp' = Answer([op |-> "findByCode", code |-> raw, value |-> FindByCodeResult(raw)])
    /\ UNCHANGED <<users, udoc, now, species, lots, nextId, doc, pend>>

\* --------------------------------------------------------------- PlantLot

NoHarvest ==
    [isHarvested |-> FALSE, harvestedDate |-> NoNum, harvestedBy |-> Undefined,
     yield |-> [quantity |-> NoNum, unit |-> "kg"], quality |-> Undefined]

\* the document new PlantLot(f) holds after the setters and defaults
NewLotDoc(f, id) ==
    [_id |-> id,
     lotId |-> LotIdSetter(f.lotId),
     speciesId |-> f.speciesId,
     plantedDate |-> f.plantedDate,
     zone |-> f.zone,
     locationId |-> f.locationId,
     currentHeight |-> f.currentHeight,
     diameter |-> f.diameter,
     healthStatus |-> IF f.healthStatus = Undefined THEN "good" ELSE f.healthStatus,
     photos |-> f.photos,
     growthMeasurements |-> <<>>,
     healthRecords |-> <<>>,
     harvestInfo |-> NoHarvest,
     isActive |-> IF "isActive" \in DOMAIN f THEN f.isActive ELSE TRUE,
     createdBy |-> f.createdBy,
     __v |-> 0]

ValidPhoto(ph) == ph.url # Undefined

ValidMeasurement(e) ==
    /\ e.height >= 0
    /\ Defined(e.diameter) => Val(e.diameter) >= 0
    /\ e.measuredBy # Undefined

ValidHealthRecord(e) ==
    /\ e.status \in HealthStatuses
    /\ e.recordedBy # Undefined

\* the validators of harvestInfo; a Date is truthy, so !value holds only of
\* a harvestedDate that is not set
ValidHarvestInfo(h, plantedDate) ==
    /\ Defined(h.harvestedDate) => Val(h.harvestedDate) >= plantedDate
    /\ Defined(h.yield.quantity) => Val(h.yield.quantity) >= 0
    /\ h.yield.unit \in YieldUnits
    /\ h.quality \in HarvestQualities \cup {Undefined}

\* the schema's validators, run by save() at time t
ValidLotAnyPlantedDate(l, t) ==
    /\ MatchLotId(l.lotId)
    /\ Len(l.lotId) <= LotIdMaxLength
    /\ l.zone # Undefined
    /\ l.locationId # Undefined
    /\ l.currentHeight >= 0
    /\ Defined(l.diameter) => Val(l.diameter) >= 0
    /\ l.healthStatus \in HealthStatuses
    /\ \A i \in 1..Len(l.photos) : ValidPhoto(l.photos[i])
    /\ \A i \in 1..Len(l.growthMeasurements) : ValidMeasurement(l.growthMeasurements[i])
    /\ \A i \in 1..Len(l.healthRecords) : ValidHealthRecord(l.healthRecords[i])
    /\ ValidHarvestInfo(l.harvestInfo, l.plantedDate)
    /\ l.createdBy # Undefined

ValidLot(l, t) ==
    /\ MatchLotId(l.lotId)
    /\ Len(l.lotId) <= LotIdMaxLength
    /\ l.plantedDate <= t
    /\ l.zone # Undefined
    /\ l.locationId # Undefined
    /\ l.currentHeight >= 0
    /\ Defined(l.diameter) => Val(l.diameter) >= 0
    /\ l.healthStatus \in HealthStatuses
    /\ \A i \in 1..Len(l.photos) : ValidPhoto(l.photos[i])
    /\ \A i \in 1..Len(l.growthMeasurements) : ValidMeasurement(l.growthMeasurements[i])
    /\ \A i \in 1..Len(l.healthRecords) : ValidHealthRecord(l.healthRecords[i])
    /\ ValidHarvestInfo(l.harvestInfo, l.plantedDate)
    /\ l.createdBy # Undefined

\* the unique index of lotId: no stored document has this lotId
LotIdIndexFreeNone(l) == TRUE
LotIdIndexFree(l) == \A i \in DOMAIN lots : lots[i].lotId # l.lotId

\* what PlantLot.create(f) does: "ok" and the document is inserted, or the
\* error it rejects with
CreateOutcome(f) ==
    LET l == NewLotDoc(f, nextId)
    IN  IF ~ValidLot(l, now) THEN "ValidationError"
        ELSE IF ~LotIdIndexFree(l) THEN "E11000"
        ELSE "ok"

\* PlantLot.create(f), called with a species reference that resolves
PlantLotCreate(f) ==
    /\ nextId <= MaxLots
    /\ f.speciesId \in DOMAIN species
    /\ LET out == CreateOutcome(f)
       IN  /\ lots' = IF out = "ok" THEN lots @@ (nextId :> NewLotDoc(f, nextId)) ELSE lots
           /\ nextId' = IF out = "ok" THEN nextId + 1 ELSE nextId
           /\ resp' = Answer([op |-> "PlantLot.create", ok |-> out = "ok", error |-> out])
    /\ UNCHANGED <<users, udoc, now, species, doc, pend>>

\* ------------------------------------------------- documents held in memory

\* populate('speciesId', fields): the sub-document with the selected fields
Select(s, fields) == [k \in fields \cup {"_id"} |-> s[k]]

\* the field selections of the populate calls
ThresholdFields == {"harvestDays", "minHeight"}
QRFields == {"name", "code"}

\* the in-memory document of stored lot id; sel = {} leaves speciesId an
\* ObjectId, otherwise speciesId is populated with the fields of sel (null
\* when the species is gone).  newGM, newHR and newPh count the trailing
\* growth measurements, health records and photos pushed and not yet saved,
\* mod holds the modified paths that save() sends with $set.
Hydrate(id, sel) ==
    LET l == lots[id]
    IN  [lot |-> l,
         pop |-> IF sel = {} THEN "id"
                 ELSE IF l.speciesId \in DOMAIN species THEN "doc" ELSE "null",
         sp |-> IF sel # {} /\ l.speciesId \in DOMAIN species
                THEN Select(species[l.speciesId], sel) ELSE << >>,
         newGM |-> 0,
         newHR |-> 0,
         newPh |-> 0,
         mod |-> {}]

\* PlantLot.findById(id).populate('speciesId', sel), the result kept by p
LoadLot(p, id, sel) ==
    /\ id \in DOMAIN lots
    /\ doc' = [doc EXCEPT ![p] = <<Hydrate(id, sel)>>]
    /\ UNCHANGED <<users, udoc, now, species, lots, nextId, pend, resp>>

\* plantLotSchema.methods.getDaysFromPlanting at time t
GetDaysFromPlantingRounded(l, t) == (t - l.plantedDate + HalfDay) \div DayMs
GetDaysFromPlanting(l, t) == (t - l.plantedDate) \div DayMs

\* a caller evaluates lot.getDaysFromPlanting() on the document it holds
CallGetDaysFromPlanting(p) ==
    /\ doc[p] # <<>>
    /\ resp' = Answer([op |-> "getDaysFromPlanting",
                       value |-> GetDaysFromPlanting(doc[p][1].lot, now),
                       id |-> doc[p][1].lot._id,
                       plantedDate |-> doc[p][1].lot.plantedDate, at |-> now])
    /\ UNCHANGED <<users, udoc, now, species, lots, nextId, doc, pend>>

\* plantLotSchema.methods.isReadyForHarvest at time t, on in-memory document d
IsReadyForHarvest(d, t) ==
    IF d.pop = "null" \/ FalsyNum(d.sp, "harvestDays") \/ FalsyNum(d.sp, "minHeight")
    THEN [threw |-> TRUE, value |-> FALSE]
    ELSE [threw |-> FALSE,
          value |-> /\ GetDaysFromPlanting(d.lot, t) >= d.sp.harvestDays
                    /\ d.lot.currentHeight >= d.sp.minHeight]

\* a caller evaluates lot.isReadyForHarvest() on the document it holds
CallIsReadyForHarvest(p) ==
    /\ doc[p] # <<>>
    /\ LET d == doc[p][1]
           r == IsReadyForHarvest(d, now)
       IN  resp' = Answer([op |-> "isReadyForHarvest", threw |-> r.threw,
                           value |-> r.value, doc |-> d, at |-> now])
    /\ UNCHANGED <<users, udoc, now, species, lots, nextId, doc, pend>>

\* ------------------------------------------------------------- save()

Last(q) == q[Len(q)]

\* the trailing n entries of q
Tail_n(q, n) == SubSeq(q, Len(q) - n + 1, Len(q))

\* The version key __v.  An update that assigns a whole array (photos) is
\* sent with the version the document was loaded with in its filter, and
\* matches nothing when the stored version has moved on; an update that
\* pushes to an array or assigns one increments the stored version.
ChecksVersion(d) == "photos" \in d.mod
IncrementsVersion(d) == d.newGM > 0 \/ d.newHR > 0 \/ d.newPh > 0 \/ "photos" \in d.mod

\* the update save() sends for in-memory document d: $set of the modified
\* paths, $push of the array entries pushed since the last save, $inc of the
\* version
SaveWholeDocument(stored, d) == d.lot
SaveDelta(stored, d) ==
    [k \in DOMAIN stored |->
        IF k = "__v"
        THEN IF IncrementsVersion(d) THEN stored.__v + 1 ELSE stored.__v
        ELSE IF k = "growthMeasurements"
        THEN stored.growthMeasurements \o Tail_n(d.lot.growthMeasurements, d.newGM)
        ELSE IF k = "healthRecords"
        THEN stored.healthRecords \o Tail_n(d.lot.healthRecords, d.newHR)
        ELSE IF k \in d.mod THEN d.lot[k]
        ELSE IF k = "photos" THEN stored.photos \o Tail_n(d.lot.photos, d.newPh)
        ELSE stored[k]]

\* what document.save() does at time t: validation first, then the update
SaveOutcomeNoVersion(d, t) ==
    IF ~ValidLot(d.lot, t) THEN "ValidationError"
    ELSE IF d.lot._id \notin DOMAIN lots THEN "DocumentNotFoundError"
    ELSE "ok"
SaveOutcome(d, t) ==
    IF ~ValidLot(d.lot, t) THEN "ValidationError"
    ELSE IF d.lot._id \notin DOMAIN lots THEN "DocumentNotFoundError"
    ELSE IF ChecksVersion(d) /\ lots[d.lot._id].__v # d.lot.__v THEN "VersionError"
    ELSE "ok"

\* the in-memory document after a save that succeeded
Clean(d) ==
    [d EXCEPT !.lot.__v = IF IncrementsVersion(d) THEN @ + 1 ELSE @,
              !.newGM = 0, !.newHR = 0, !.newPh = 0, !.mod = {}]

\* plantLotSchema.methods.addGrowthMeasurement, up to the call of save()
PushMeasurementAlwaysDiameter(d, height, diameter, measuredBy, t) ==
    [d EXCEPT
        !.lot.growthMeasurements =
            Append(@, [height |-> height, diameter |-> diameter,
                       measuredBy |-> measuredBy, measuredAt |-> t]),
        !.lot.currentHeight = height,
        !.lot.diameter = diameter,
        !.newGM = @ + 1,
        !.mod = @ \cup {"currentHeight", "diameter"}]

PushMeasurementKeepHeight(d, height, diameter, measuredBy, t) ==
    [d EXCEPT
        !.lot.growthMeasurements =
            Append(@, [height |-> height, diameter |-> diameter,
                       measuredBy |-> measuredBy, measuredAt |-> t]),
        !.lot.diameter = IF Defined(diameter) THEN diameter ELSE @,
        !.newGM = @ + 1,
        !.mod = @ \cup (IF Defined(diameter) THEN {"diameter"} ELSE {})]

PushMeasurement(d, height, diameter, measuredBy, t) ==
    [d EXCEPT
        !.lot.growthMeasurements =
            Append(@, [height |-> height, diameter |-> diameter,
                       measuredBy |-> measuredBy, measuredAt |-> t]),
        !.lot.currentHeight = height,
        !.lot.diameter = IF Defined(diameter) THEN diameter ELSE @,
        !.newGM = @ + 1,
        !.mod = @ \cup (IF Defined(diameter) THEN {"currentHeight", "diameter"}
                        ELSE {"currentHeight"})]

\* lot.addGrowthMeasurement(height, diameter, measuredBy) on the document p
\* holds; a save that fails leaves the pushed entry in the in-memory document
AddGrowthMeasurement(p, height, diameter, measuredBy) ==
    /\ doc[p] # <<>>
    /\ LET d == PushMeasurement(doc[p][1], height, diameter, measuredBy, now)
           id == d.lot._id
           out == SaveOutcome(d, now)
       IN  /\ id \in DOMAIN lots => Len(lots[id].growthMeasurements) < MaxMeasurements
           /\ Len(d.lot.growthMeasurements) <= MaxMeasurements
           /\ lots' = IF out = "ok" THEN [lots EXCEPT ![id] = SaveDelta(lots[id], d)]
                      ELSE lots
           /\ doc' = [doc EXCEPT ![p] = <<IF out = "ok" THEN Clean(d) ELSE d>>]
           /\ resp' = Answer([op |-> "addGrowthMeasurement", ok |-> out = "ok",
                              error |-> out, id |-> id, by |-> p,
                              height |-> height, diameter |-> diameter])
    /\ UNCHANGED <<users, udoc, now, species, nextId, pend>>

\* plantLotSchema.methods.addHealthRecord, up to the call of save()
PushHealthRecordKeepStatus(d, status, recordedBy, t) ==
    [d EXCEPT
        !.lot.healthRecords =
            Append(@, [status |-> status, recordedBy |-> recordedBy, recordedAt |-> t]),
        !.newHR = @ + 1]

PushHealthRecord(d, status, recordedBy, t) ==
    [d EXCEPT
        !.lot.healthRecords =
            Append(@, [status |-> status, recordedBy |-> recordedBy, recordedAt |-> t]),
        !.lot.healthStatus = status,
        !.newHR = @ + 1,
        !.mod = @ \cup {"healthStatus"}]

\* lot.addHealthRecord(status, symptoms, treatment, recordedBy, notes) on the
\* document p holds
AddHealthRecord(p, status, recordedBy) ==
    /\ doc[p] # <<>>
    /\ LET held == doc[p][1]
           d == PushHealthRecord(held, status, recordedBy, now)
           id == d.lot._id
           out == SaveOutcome(d, now)
       IN  /\ id \in DOMAIN lots => Len(lots[id].healthRecords) < MaxHealthRecords
           /\ Len(d.lot.healthRecords) <= MaxHealthRecords
           /\ lots' = IF out = "ok" THEN [lots EXCEPT ![id] = SaveDelta(lots[id], d)]
                      ELSE lots
           /\ doc' = [doc EXCEPT ![p] = <<IF out = "ok" THEN Clean(d) ELSE d>>]
           /\ resp' = Answer([op |-> "addHealthRecord", ok |-> out = "ok",
                              error |-> out, id |-> id, by |-> p,
                              status |-> status, recordedBy |-> recordedBy,
                              previous |-> held.lot.healthStatus,
                              clean |-> held.newHR = 0 /\ held.newGM = 0 /\ held.mod = {}])
    /\ UNCHANGED <<users, udoc, now, species, nextId, pend>>

\* plantLotSchema.methods.addPhoto, up to the call of save()
PushPhoto(d, url, takenBy, t) ==
    [d EXCEPT
        !.lot.photos = Append(@, [url |-> url, takenBy |-> takenBy, takenAt |-> t]),
        !.newPh = @ + 1]

\* lot.addPhoto(url, caption, takenBy) on the document p holds
AddPhoto(p, url, takenBy) ==
    /\ doc[p] # <<>>
    /\ LET d == PushPhoto(doc[p][1], url, takenBy, now)
           id == d.lot._id
           out == SaveOutcome(d, now)
       IN  /\ id \in DOMAIN lots => Len(lots[id].photos) < MaxPhotos
           /\ Len(d.lot.photos) <= MaxPhotos
           /\ lots' = IF out = "ok" THEN [lots EXCEPT ![id] = SaveDelta(lots[id], d)]
                      ELSE lots
           /\ doc' = [doc EXCEPT ![p] = <<IF out = "ok" THEN Clean(d) ELSE d>>]
           /\ resp' = Answer([op |-> "addPhoto", ok |-> out = "ok", error |-> out,
                              id |-> id, by |-> p, url |-> url])
    /\ UNCHANGED <<users, udoc, now, species, nextId, pend>>

\* plantLotSchema.methods.harvest, up to the call of save(): harvestInfo is
\* assigned as a whole
HarvestEditOnlyIfReady(d, harvestedBy, quantity, unit, quality, t) ==
    IF GetDaysFromPlanting(d.lot, t) < 1 THEN d
    ELSE [d EXCEPT
            !.lot.harvestInfo =
                [isHarvested |-> TRUE, harvestedDate |-> Some(t),
                 harvestedBy |-> harvestedBy,
                 yield |-> [quantity |-> quantity,
                            unit |-> IF unit = Undefined THEN "kg" ELSE unit],
                 quality |-> quality],
            !.mod = @ \cup {"harvestInfo"}]

HarvestEdit(d, harvestedBy, quantity, unit, quality, t) ==
    [d EXCEPT
        !.lot.harvestInfo =
            [isHarvested |-> TRUE, harvestedDate |-> Some(t),
             harvestedBy |-> harvestedBy,
             yield |-> [quantity |-> quantity,
                        unit |-> IF unit = Undefined THEN "kg" ELSE unit],
             quality |-> quality],
        !.mod = @ \cup {"harvestInfo"}]

\* lot.harvest(harvestedBy, quantity, unit, quality) on the document p holds
Harvest(p, harvestedBy, quantity, unit, quality) ==
    /\ doc[p] # <<>>
    /\ LET held == doc[p][1]
           d == HarvestEdit(held, harvestedBy, quantity, unit, quality, now)
           id == d.lot._id
           out == SaveOutcome(d, now)
       IN  /\ lots' = IF out = "ok" THEN [lots EXCEPT ![id] = SaveDelta(lots[id], d)]
                      ELSE lots
           /\ doc' = [doc EXCEPT ![p] = <<IF out = "ok" THEN Clean(d) ELSE d>>]
           /\ resp' = Answer([op |-> "harvest", ok |-> out = "ok", error |-> out,
                              id |-> id, by |-> p, harvestedBy |-> harvestedBy,
                              quantity |-> quantity, unit |-> unit, quality |-> quality,
                              clean |-> held.newHR = 0 /\ held.newGM = 0 /\ held.mod = {}])
    /\ UNCHANGED <<users, udoc, now, species, nextId, pend>>

\* PlantLot.findReadyForHarvest(): find({isActive: true}), populate, then the
\* filter that keeps the lots whose isReadyForHarvest() returns true and drops
\* those for which it throws
FindReadyForHarvestIds(t) ==
    {i \in DOMAIN lots :
        /\ lots[i].isActive
        /\ LET r == IsReadyForHarvest(Hydrate(i, ThresholdFields), t)
           IN  ~r.threw /\ r.value}

FindReadyForHarvest ==
    /\ resp' = Answer([op |-> "findReadyForHarvest", ids |-> FindReadyForHarvestIds(now),
                       at |-> now])
    /\ UNCHANGED <<users, udoc, now, species, lots, nextId, doc, pend>>

\* PlantLot.findUnharvested(): the _ids of the lots found
FindUnharvestedIds == {i \in DOMAIN lots : ~lots[i].harvestInfo.isHarvested /\ lots[i].isActive}

FindUnharvested ==
    /\ resp' = Answer([op |-> "findUnharvested", ids |-> FindUnharvestedIds])
    /\ UNCHANGED <<users, udoc, now, species, lots, nextId, doc, pend>>

\* ------------------------------------------------------------------- User

\* bcrypt reads at most this many bytes of the string it hashes (a limit of
\* the bcrypt library the model calls through bcrypt.hash and bcrypt.compare)
BcryptInputBytes == 72

PasswordMinLength == 6

\* the bytes of s that bcrypt reads
BcryptInput(s) == IF Len(s) > BcryptInputBytes THEN SubSeq(s, 1, BcryptInputBytes) ELSE s

\* bcrypt.hash(s, salt): a string made of the marker of a bcrypt hash, the
\* salt, and the digest of the salt and the bytes read.  The digest is
\* modelled by the bytes read themselves: equal digests under one salt mean
\* equal bytes read.
BcryptHash(s, salt) == <<"$", salt>> \o BcryptInput(s)

\* bcrypt.compare(s, h): hashes s with the salt of h and compares; false when
\* h is no bcrypt hash
BcryptCompare(s, h) ==
    /\ Len(h) >= 2
    /\ h[1] = "$"
    /\ BcryptHash(s, h[2]) = h

\* the salts bcrypt.genSalt may return
Salts == {"1", "2"}

UserPaths == {"name", "email", "passwordHash", "role"}

\* the ObjectId new User() gives the document: one that no stored and no
\* held document has
FreshUserId ==
    CHOOSE i \in 1..(Cardinality(DOMAIN users) + Cardinality(Procs) + 1) :
        /\ i \notin DOMAIN users
        /\ \A q \in Procs : udoc[q] # <<>> => udoc[q][1].f._id # i

\* new User(f), held by p.  f are the fields of the document, isNew and mod
\* (the modified paths) are Mongoose's bookkeeping, saves counts the calls of
\* save(), and plain remembers the string last assigned to passwordHash.
NewUser(p, f) ==
    /\ udoc' = [udoc EXCEPT ![p] =
            <<[f |-> [_id |-> FreshUserId, name |-> f.name, email |-> f.email,
                      passwordHash |-> f.passwordHash,
                      role |-> IF f.role = Undefined THEN "field" ELSE f.role],
               isNew |-> TRUE, mod |-> UserPaths, saves |-> 0,
               plain |-> f.passwordHash]>>]
    /\ UNCHANGED <<now, species, lots, nextId, doc, pend, resp, users>>

\* user[path] = value on the document p holds: a value that differs from the
\* current one marks the path modified
SetUserPath(p, path, value) ==
    /\ udoc[p] # <<>>
    /\ LET u == udoc[p][1]
       IN  udoc' = [udoc EXCEPT ![p] =
               <<[u EXCEPT !.f[path] = value,
                           !.mod = IF u.f[path] = value THEN @ ELSE @ \cup {path},
                           !.plain = IF path = "passwordHash" THEN value ELSE @]>>]
    /\ UNCHANGED <<now, species, lots, nextId, doc, pend, resp, users>>

\* the validators of the User schema
ValidUser(f) ==
    /\ f.name # Undefined
    /\ f.email # Undefined
    /\ Len(f.passwordHash) >= PasswordMinLength
    /\ f.role \in Roles

\* the unique index of email
EmailIndexFree(f) == \A i \in DOMAIN users : i # f._id => users[i].email # f.email

\* userSchema.pre('save'): hash passwordHash when the path is modified
PreSaveHashAlways(u, salt) ==
    [u EXCEPT !.f.passwordHash = BcryptHash(@, salt)]
PreSaveHash(u, salt) ==
    IF "passwordHash" \notin u.mod THEN u
    ELSE [u EXCEPT !.f.passwordHash = BcryptHash(@, salt)]

\* user.save() on the document p holds, salt being what genSalt returns.
\* Validation runs before the pre-save hook.  A new document is inserted
\* whole, an old one is updated with $set of its modified paths.  The
\* modified paths are cleared when the write is sent; a failed update puts
\* them back, a failed insert makes the document new again.
SaveUser(p, salt) ==
    /\ udoc[p] # <<>>
    /\ udoc[p][1].saves < MaxSaves
    /\ LET u == [udoc[p][1] EXCEPT !.saves = @ + 1]
           h == PreSaveHash(u, salt)
           id == u.f._id
           base == [op |-> "User.save", by |-> p, id |-> id,
                    modified |-> "passwordHash" \in u.mod, plain |-> u.plain]
       IN  IF ~ValidUser(u.f)
           THEN /\ udoc' = [udoc EXCEPT ![p] = <<u>>]
                /\ users' = users
                /\ resp' = Answer(base @@ [ok |-> FALSE, error |-> "ValidationError"])
           ELSE IF ~EmailIndexFree(h.f)
           THEN /\ udoc' = [udoc EXCEPT ![p] =
                        <<[h EXCEPT !.mod = IF h.isNew THEN {} ELSE @]>>]
                /\ users' = users
                /\ resp' = Answer(base @@ [ok |-> FALSE, error |-> "E11000"])
           ELSE /\ udoc' = [udoc EXCEPT ![p] = <<[h EXCEPT !.mod = {}, !.isNew = FALSE]>>]
                /\ users' =
                       IF h.isNew THEN users @@ (id :> h.f)
                       ELSE [users EXCEPT ![id] =
                                [k \in DOMAIN @ |-> IF k \in h.mod THEN h.f[k] ELSE @[k]]]
                /\ resp' = Answer(base @@ [ok |-> TRUE, error |-> "none"])
    /\ UNCHANGED <<now, species, lots, nextId, doc, pend>>

\* user.comparePassword(candidate) on the document p holds
ComparePassword(p, candidate) ==
    /\ udoc[p] # <<>>
    /\ resp' = Answer([op |-> "comparePassword", by |-> p, candidate |-> candidate,
                       value |-> BcryptCompare(candidate, udoc[p][1].f.passwordHash)])
    /\ UNCHANGED <<now, species, lots, nextId, doc, pend, users, udoc>>

\* ------------------------------------------------------- authentication

\* the role stored with each user
UserRole == [u \in Users |-> IF u = "u1" THEN "manager" ELSE "field"]

\* a bearer token as generateTestToken signs it, or a request without a
\* usable one
ValidTokens == {[kind |-> "valid", userId |-> u, role |-> UserRole[u]] : u \in Users}

\* the protect middleware: what it attaches to the request as req.user
Protect(tok) ==
    IF tok.kind = "valid"
    THEN [status |-> 200, user |-> [userId |-> tok.userId, role |-> tok.role]]
    ELSE [status |-> 401, user |-> << >>]

AuthenticatedUsers == {Protect(tok).user : tok \in ValidTokens}

\* ----------------------------------------------------------- lot controller

\* PlantLot.findOne({ lotId }): the query casts lotId with the schema setters
FindOneByLotIdRaw(raw) == {i \in DOMAIN lots : lots[i].lotId = raw}
FindOneByLotId(raw) == {i \in DOMAIN lots : lots[i].lotId = LotIdSetter(raw)}

\* the catch blocks of createLot and updateLot: status 400 and
\* error.message || generic; an error is named by its message
Catch(thrown, generic) ==
    [status |-> 400, thrown |-> thrown,
     message |-> IF thrown # "" THEN thrown ELSE generic]

\* the fields createLot passes to PlantLot.create
CreatedByUserId(user) == Prop(user, "userId")
CreatedBy(user) == Prop(user, "id")

CreateFields(body, user) ==
    [lotId |-> body.lotId, speciesId |-> body.speciesId,
     plantedDate |-> body.plantedDate, zone |-> body.zone,
     locationId |-> body.locationId, currentHeight |-> body.currentHeight,
     diameter |-> body.diameter, healthStatus |-> body.healthStatus,
     photos |-> body.photos, createdBy |-> CreatedBy(user)]

\* createLot, up to the await of PlantLot.create: the species lookup and the
\* lookup of an existing lot with this lotId
CreateLotCheckNoSpeciesLookup(p, user, body) ==
    /\ pend[p] = <<>>
    /\ IF FindOneByLotId(body.lotId) # {}
       THEN /\ resp' = Answer([op |-> "createLot", status |-> 400,
                               thrown |-> "none",
                               message |-> "Lot ID already exists",
                               body |-> body, user |-> user])
            /\ pend' = pend
       ELSE /\ pend' = [pend EXCEPT ![p] = <<[user |-> user, body |-> body]>>]
            /\ resp' = resp
    /\ UNCHANGED <<users, udoc, now, species, lots, nextId, doc>>

CreateLotCheck(p, user, body) ==
    /\ pend[p] = <<>>
    /\ IF body.speciesId \notin DOMAIN species
       THEN /\ resp' = Answer([op |-> "createLot", status |-> 404,
                               thrown |-> "none",
                               message |-> "Plant species not found",
                               body |-> body, user |-> user])
            /\ pend' = pend
       ELSE IF FindOneByLotId(body.lotId) # {}
       THEN /\ resp' = Answer([op |-> "createLot", status |-> 400,
                               thrown |-> "none",
                               message |-> "Lot ID already exists",
                               body |-> body, user |-> user])
            /\ pend' = pend
       ELSE /\ pend' = [pend EXCEPT ![p] = <<[user |-> user, body |-> body]>>]
            /\ resp' = resp
    /\ UNCHANGED <<users, udoc, now, species, lots, nextId, doc>>

\* createLot, from PlantLot.create to the response
CreateLotInsert(p) ==
    /\ pend[p] # <<>>
    /\ nextId <= MaxLots
    /\ LET r == pend[p][1]
           f == CreateFields(r.body, r.user)
           out == CreateOutcome(f)
       IN  /\ lots' = IF out = "ok" THEN lots @@ (nextId :> NewLotDoc(f, nextId)) ELSE lots
           /\ nextId' = IF out = "ok" THEN nextId + 1 ELSE nextId
           /\ resp' = Answer([op |-> "createLot", body |-> r.body, user |-> r.user]
                             @@ (IF out = "ok"
                                 THEN [status |-> 201, thrown |-> "none", message |-> out]
                                 ELSE Catch(out, "Error creating plant lot")))
    /\ pend' = [pend EXCEPT ![p] = <<>>]
    /\ UNCHANGED <<users, udoc, now, species, doc>>

\* getLotById
GetLotById(user, id) ==
    /\ resp' = Answer([op |-> "getLotById",
                       status |-> IF id \in DOMAIN lots THEN 200 ELSE 404,
                       id |-> id, user |-> user])
    /\ UNCHANGED <<users, udoc, now, species, lots, nextId, doc, pend>>

\* the collection without document id
Without(id) == [i \in DOMAIN lots \ {id} |-> lots[i]]

\* deleteLot
DeleteStatusNoRoleCheck(user, id) ==
    IF id \notin DOMAIN lots THEN 404 ELSE 200

DeleteStatus(user, id) ==
    IF id \notin DOMAIN lots THEN 404
    ELSE IF Prop(user, "role") # "manager" THEN 403
    ELSE 200

DeleteLot(user, id) ==
    /\ LET st == DeleteStatus(user, id)
       IN  /\ lots' = IF st = 200 THEN Without(id) ELSE lots
           /\ resp' = Answer([op |-> "deleteLot", status |-> st, id |-> id,
                              user |-> user])
    /\ UNCHANGED <<users, udoc, now, species, nextId, doc, pend>>

\* updateLot.  growthHistory, updatedBy and notes are no paths of the schema:
\* lot.growthHistory is undefined, so its push throws before anything is
\* saved; the assignments to notes and updatedBy are not persisted; and
\* populate('updatedBy') throws after the save.
UpdateEditsAlsoLotId(d, body) ==
    [d EXCEPT
        !.lot.lotId = IF "lotId" \in DOMAIN body THEN LotIdSetter(body.lotId) ELSE @,
        !.lot.diameter = IF Defined(body.diameter) THEN body.diameter ELSE @,
        !.lot.healthStatus = IF body.healthStatus # Undefined THEN body.healthStatus ELSE @,
        !.lot.photos = IF Defined(body.photos) THEN @ \o Val(body.photos) ELSE @,
        !.lot.zone = IF body.zone # Undefined THEN body.zone ELSE @,
        !.lot.locationId = IF body.locationId # Undefined THEN body.locationId ELSE @,
        !.mod = @ \cup (IF "lotId" \in DOMAIN body THEN {"lotId"} ELSE {})
                  \cup (IF Defined(body.diameter) THEN {"diameter"} ELSE {})
                  \cup (IF body.healthStatus # Undefined THEN {"healthStatus"} ELSE {})
                  \cup (IF Defined(body.photos) THEN {"photos"} ELSE {})
                  \cup (IF body.zone # Undefined THEN {"zone"} ELSE {})
                  \cup (IF body.locationId # Undefined THEN {"locationId"} ELSE {})]
UpdateEdits(d, body) ==
    [d EXCEPT
        !.lot.diameter = IF Defined(body.diameter) THEN body.diameter ELSE @,
        !.lot.healthStatus = IF body.healthStatus # Undefined THEN body.healthStatus ELSE @,
        !.lot.photos = IF Defined(body.photos) THEN @ \o Val(body.photos) ELSE @,
        !.lot.zone = IF body.zone # Undefined THEN body.zone ELSE @,
        !.lot.locationId = IF body.locationId # Undefined THEN body.locationId ELSE @,
        !.mod = @ \cup (IF Defined(body.diameter) THEN {"diameter"} ELSE {})
                  \cup (IF body.healthStatus # Undefined THEN {"healthStatus"} ELSE {})
                  \cup (IF Defined(body.photos) THEN {"photos"} ELSE {})
                  \cup (IF body.zone # Undefined THEN {"zone"} ELSE {})
                  \cup (IF body.locationId # Undefined THEN {"locationId"} ELSE {})]

\* updateLot from the edits to the response, on the document d that findById
\* returned: the stored lots and the answer it leaves
UpdateLotRest(d, body) ==
    IF Defined(body.currentHeight)
    THEN [lots |-> lots, answer |-> Catch("TypeError", "Error updating plant lot")]
    ELSE LET e == UpdateEdits(d, body)
             id == d.lot._id
             out == SaveOutcome(e, now)
         IN  [lots |-> IF out = "ok" THEN [lots EXCEPT ![id] = SaveDelta(lots[id], e)]
                       ELSE lots,
              answer |-> Catch(IF out = "ok" THEN "StrictPopulateError" ELSE out,
                               "Error updating plant lot")]

\* updateLot with nothing running between its findById and its save
UpdateLot(user, id, body) ==
    /\ IF id \notin DOMAIN lots
       THEN /\ lots' = lots
            /\ resp' = Answer([op |-> "updateLot", status |-> 404, id |-> id,
                               thrown |-> "none",
                               message |-> "Plant lot not found", body |-> body])
       ELSE LET r == UpdateLotRest(Hydrate(id, {}), body)
            IN  /\ lots' = r.lots
                /\ resp' = Answer([op |-> "updateLot", id |-> id, body |-> body]
                                  @@ r.answer)
    /\ UNCHANGED <<users, udoc, now, species, nextId, doc, pend>>

\* updateLot in two steps, other requests running in between: findById of a
\* stored lot, the document kept by p ...
UpdateLotFind(p, id) ==
    /\ id \in DOMAIN lots
    /\ doc' = [doc EXCEPT ![p] = <<Hydrate(id, {})>>]
    /\ UNCHANGED <<users, udoc, now, species, lots, nextId, pend, resp>>

\* ... and the rest of the handler on that document, which the handler then
\* drops
UpdateLotSave(p, user, body) ==
    /\ doc[p] # <<>>
    /\ doc[p][1].pop = "id"
    /\ doc[p][1].newGM = 0 /\ doc[p][1].newHR = 0 /\ doc[p][1].newPh = 0
    /\ doc[p][1].mod = {}
    /\ LET r == UpdateLotRest(doc[p][1], body)
       IN  /\ lots' = r.lots
           /\ resp' = Answer([op |-> "updateLot", id |-> doc[p][1].lot._id, body |-> body]
                             @@ r.answer)
    /\ doc' = [doc EXCEPT ![p] = <<>>]
    /\ UNCHANGED <<users, udoc, now, species, nextId, pend>>

\* ------------------------------------------- specification: harvest readiness

ReadySpeciesInputs ==
    [name : {"Tea"}, code : {<<"t">>}, minHeight : {-1, 0, 1},
     harvestDays : {0, 1, 2}, createdBy : {"u1"}]

ReadyLotInputs ==
    [lotId : {<<"a">>}, speciesId : DOMAIN species, plantedDate : {0, HalfDay},
     zone : {"Z1"}, locationId : {"L1"}, currentHeight : {0, 1},
     diameter : {NoNum}, healthStatus : {Undefined}, photos : {<<>>},
     createdBy : {"u1"}]


NextReady ==
    \/ Tick
    \/ \E f \in ReadySpeciesInputs : PlantSpeciesCreate(f)
    \/ \E f \in ReadyLotInputs : PlantLotCreate(f)
    \/ \E id \in DOMAIN lots, sel \in {{}, ThresholdFields, QRFields} : LoadLot(1, id, sel)
    \/ CallIsReadyForHarvest(1)

SpecReady == Init /\ [][NextReady]_vars

\* C1: on a document whose species is populated with its thresholds,
\* isReadyForHarvest() returns (does not throw), and returns true exactly
\* when getDaysFromPlanting() >= harvestDays and currentHeight >= minHeight.
C1_ReadyIffBothThresholds ==
    (resp.op = "isReadyForHarvest" /\ resp.doc.pop = "doc"
        /\ ThresholdFields \subseteq DOMAIN resp.doc.sp)
    => /\ ~resp.threw
       /\ resp.value = (/\ GetDaysFromPlanting(resp.doc.lot, resp.at) >= resp.doc.sp.harvestDays
                        /\ resp.doc.lot.currentHeight >= resp.doc.sp.minHeight)

\* ---------------------------------------- specification: growth measurements

GrowthSpeciesInputs ==
    [name : {"Tea"}, code : {<<"t">>}, minHeight : {1}, harvestDays : {1},
     createdBy : {"u1"}]

GrowthLotInputs ==
    [lotId : {<<"a">>}, speciesId : DOMAIN species, plantedDate : {0},
     zone : {"Z1"}, locationId : {"L1"}, currentHeight : {0},
     diameter : {NoNum}, healthStatus : {Undefined}, photos : {<<>>},
     createdBy : {"u1"}]

\* (height, diameter, measuredBy): two valid measurements, one without a
\* diameter, and one that validation rejects
GrowthMeasurements ==
    {<<1, NoNum, "u1">>, <<2, Some(2), "u1">>, <<-1, NoNum, "u1">>}

NoUpdate ==
    [currentHeight |-> NoNum, diameter |-> NoNum, healthStatus |-> Undefined,
     photos |-> NoNum, zone |-> Undefined, locationId |-> Undefined]

GrowthUpdateBodies ==
    {[NoUpdate EXCEPT !.currentHeight = Some(3)],
     [NoUpdate EXCEPT !.diameter = Some(4)],
     [NoUpdate EXCEPT !.diameter = Some(-1)]}

NextGrowth ==
    \/ \E f \in GrowthSpeciesInputs : PlantSpeciesCreate(f)
    \/ \E f \in GrowthLotInputs : PlantLotCreate(f)
    \/ \E p \in Procs, id \in DOMAIN lots : LoadLot(p, id, {})
    \/ \E p \in Procs, m \in GrowthMeasurements : AddGrowthMeasurement(p, m[1], m[2], m[3])
    \/ \E id \in 1..MaxLots, b \in GrowthUpdateBodies :
          UpdateLot(Protect([kind |-> "valid", userId |-> "u2", role |-> "field"]).user, id, b)

SpecGrowth == Init /\ [][NextGrowth]_vars

AddSucceeded == Answered /\ resp'.op = "addGrowthMeasurement" /\ resp'.ok

Stale(p) ==
    /\ doc[p] # <<>>
    /\ doc[p][1].lot._id \in DOMAIN lots
    /\ Len(doc[p][1].lot.growthMeasurements) - doc[p][1].newGM
          < Len(lots[doc[p][1].lot._id].growthMeasurements)

\* C4: when a call saves on a document loaded before another call's save,
\* every entry stored by the other call stays, the saving call's entry is
\* added, and the stored currentHeight is the height of one of the two.
C4_ConcurrentAppendsSurvive ==
    [][(AddSucceeded /\ Stale(resp'.by)) =>
        LET old == lots[resp'.id].growthMeasurements
            new == lots'[resp'.id].growthMeasurements
        IN  /\ \A i \in 1..Len(old) : new[i] = old[i]
            /\ Len(new) = Len(old) + 1
            /\ Last(new) = Last(doc'[resp'.by][1].lot.growthMeasurements)
            /\ lots'[resp'.id].currentHeight \in {Last(old).height, Last(new).height}]_vars

\* both holders loaded the empty lot, and both have saved one measurement
C4_Witness ==
    /\ doc[1] # <<>> /\ doc[2] # <<>>
    /\ doc[1][1].lot._id = doc[2][1].lot._id
    /\ doc[1][1].newGM = 0 /\ doc[2][1].newGM = 0
    /\ Len(doc[1][1].lot.growthMeasurements) = 1
    /\ Len(doc[2][1].lot.growthMeasurements) = 1
    /\ doc[1][1].lot._id \in DOMAIN lots
    /\ Len(lots[doc[1][1].lot._id].growthMeasurements) = 2
    /\ lots[doc[1][1].lot._id].growthMeasurements[1].height
          # lots[doc[1][1].lot._id].growthMeasurements[2].height

\* ------------------------------------------------------------ QR controller

DefaultQRSize == 200

\* `${req.protocol}://${req.get('host')}/api/lots/${lot._id}`
LotUrl(id) == [origin |-> "http://host", path |-> "/api/lots/", id |-> id]

\* the qrData object of a lot whose speciesId is populated with name and code
QRData(d) ==
    [lotId |-> d.lot.lotId,
     speciesName |-> d.sp.name,
     speciesCode |-> d.sp.code,
     plantedDate |-> d.lot.plantedDate,
     zone |-> d.lot.zone,
     locationId |-> d.lot.locationId,
     url |-> LotUrl(d.lot._id)]

\* JSON.stringify of an object: the text is the members in insertion order
QRDataKeys == <<"lotId", "speciesName", "speciesCode", "plantedDate", "zone",
                "locationId", "url">>
\* the JSON text of one member value: a Date is written as its ISO string,
\* a string as a quoted string
DateKeys == {"plantedDate"}
JsonValue(k, v) ==
    IF k \in DateKeys THEN [quoted |-> [iso |-> v]] ELSE [quoted |-> v]

JsonStringify(o) ==
    [i \in 1..Len(QRDataKeys) |-> <<QRDataKeys[i], JsonValue(QRDataKeys[i], o[QRDataKeys[i]])>>]

\* JSON.parse of such a text, as a reader of the QR code does it: every
\* member comes back as a string
JsonParse(text) ==
    [k \in {text[i][1] : i \in 1..Len(text)} |->
        LET i == CHOOSE j \in 1..Len(text) : text[j][1] = k
        IN  text[i][2].quoted]

\* QRCode.toDataURL / QRCode.toBuffer(...).toString('base64'): an image of
\* the given width that encodes the text
QRImage(text, format, size) ==
    [image |-> IF format = "base64" THEN "data:image/png;base64" ELSE "base64",
     width |-> size, encodes |-> text]

\* the text generateLotInfoQRCode encodes
LotInfoTextFull(d) == JsonStringify(QRData(d))
LotInfoText(d) == LotUrl(d.lot._id)

\* the answers shared by generateLotQRCode and generateLotInfoQRCode once
\* the text is built: the format decides between a JSON body, a PNG buffer
\* and 400; a throw of the QR library is answered 500
QRAnswer(base, d, text, format, size, failed, extra, generic) ==
    IF format \notin {"base64", "png"}
    THEN base @@ [status |-> 400, message |-> "Invalid format. Use \"base64\" or \"png\""]
    ELSE IF failed
    THEN base @@ [status |-> 500, message |-> generic]
    ELSE IF format = "base64"
    THEN base @@ [status |-> 200,
                  data |-> [lotId |-> d.lot.lotId,
                            qrCode |-> QRImage(text, "base64", size),
                            format |-> "base64", size |-> size] @@ extra]
    ELSE base @@ [status |-> 200, buffer |-> QRImage(text, "png", size)]

\* generateLotQRCode; failed tells whether the QR library throws
GenerateLotQRCode(user, lotId, format, size, failed) ==
    /\ LET base == [op |-> "generateLotQRCode", lotId |-> lotId, format |-> format,
                    failed |-> failed]
           found == FindOneByLotId(lotId)
       IN  IF found = {}
           THEN resp' = Answer(base @@ [status |-> 404, message |-> "Plant lot not found"])
           ELSE LET d == Hydrate(CHOOSE i \in found : TRUE, QRFields)
                IN  IF d.pop # "doc"
                    THEN resp' = Answer(base @@ [status |-> 500,
                                                 message |-> "Error generating QR code"])
                    ELSE resp' = Answer(QRAnswer(base, d, JsonStringify(QRData(d)),
                                                 format, size, failed,
                                                 [lotInfo |-> QRData(d)],
                                                 "Error generating QR code"))
    /\ UNCHANGED <<users, udoc, now, species, lots, nextId, doc, pend>>

\* generateLotInfoQRCode; only the JSON body reads lot.speciesId.name
GenerateLotInfoQRCode(user, lotId, format, size, failed) ==
    /\ LET base == [op |-> "generateLotInfoQRCode", lotId |-> lotId, format |-> format,
                    failed |-> failed]
           found == FindOneByLotId(lotId)
       IN  IF found = {}
           THEN resp' = Answer(base @@ [status |-> 404, message |-> "Plant lot not found"])
           ELSE LET d == Hydrate(CHOOSE i \in found : TRUE, QRFields)
                IN  IF d.pop # "doc" /\ format = "base64" /\ ~failed
                    THEN resp' = Answer(base @@ [status |-> 500,
                                    message |-> "Error generating lot info QR code"])
                    ELSE resp' = Answer(QRAnswer(base, d, LotInfoText(d), format, size,
                                    failed,
                                    [url |-> LotUrl(d.lot._id),
                                     lotInfo |-> [lotId |-> d.lot.lotId,
                                                  speciesName |-> Prop(d.sp, "name"),
                                                  zone |-> d.lot.zone,
                                                  plantedDate |-> d.lot.plantedDate]],
                                    "Error generating lot info QR code"))
    /\ UNCHANGED <<users, udoc, now, species, lots, nextId, doc, pend>>

\* PlantLot.find({ lotId: { $in: lotIds } }): the _ids of the lots found,
\* the query values cast with the schema setters
FindIn(lotIds) ==
    {i \in DOMAIN lots : \E k \in 1..Len(lotIds) : lots[i].lotId = LotIdSetter(lotIds[k])}

\* the documents of a set of _ids, in the order of the collection
RECURSIVE InOrder(_)
InOrder(ids) ==
    IF ids = {} THEN <<>>
    ELSE LET m == CHOOSE i \in ids : \A j \in ids : i <= j
         IN  <<m>> \o InOrder(ids \ {m})

\* one turn of the loop of generateBatchQRCodes: the entry pushed for the
\* lot, failed telling whether the QR library throws for it
BatchEntry(d, format, size, failed) ==
    IF failed
    THEN [lotId |-> d.lot.lotId, error |-> "Failed to generate QR code",
          lotInfo |-> QRData(d)]
    ELSE [lotId |-> d.lot.lotId,
          qrCode |-> QRImage(JsonStringify(QRData(d)), format, size),
          lotInfo |-> QRData(d)]

\* the loop over the lots found and the response that follows it; a lot
\* whose species is gone makes lot.speciesId.name throw outside the inner
\* try, which the outer catch answers with 500
BatchLoopAbortOnFailure(found, format, size, fails) ==
    IF (\E i \in 1..Len(found) : Hydrate(found[i], QRFields).pop # "doc")
       \/ (\E i \in 1..Len(found) : found[i] \in fails)
    THEN [status |-> 500, qrCodes |-> <<>>]
    ELSE [status |-> 200,
          qrCodes |-> [i \in 1..Len(found) |->
                          BatchEntry(Hydrate(found[i], QRFields), format, size, FALSE)]]

BatchLoop(found, format, size, fails) ==
    IF \E i \in 1..Len(found) : Hydrate(found[i], QRFields).pop # "doc"
    THEN [status |-> 500, qrCodes |-> <<>>]
    ELSE [status |-> 200,
          qrCodes |-> [i \in 1..Len(found) |->
                          BatchEntry(Hydrate(found[i], QRFields), format, size,
                                     found[i] \in fails)]]

\* The value of req.body.lotIds: <<>> when the body has none, <<ids>> for an
\* array of ids, <<"string", chars>> for a value that is no array (a string).
IsArray(v) == Len(v) = 1

\* !v: undefined and the empty string are falsy, any array is truthy
Falsy(v) == v = <<>> \/ (~IsArray(v) /\ Len(v[2]) = 0)

\* v.length
Length(v) == IF IsArray(v) THEN Len(v[1]) ELSE Len(v[2])

\* the two checks of lotIds at the head of generateBatchQRCodes: "ok" or the
\* message of the 400 answer
CheckLotIdsNoMaximum(v) ==
    IF Falsy(v) \/ ~IsArray(v) \/ Length(v) = 0
    THEN "Please provide an array of lot IDs"
    ELSE "ok"
CheckLotIds(v) ==
    IF Falsy(v) \/ ~IsArray(v) \/ Length(v) = 0
    THEN "Please provide an array of lot IDs"
    ELSE IF Length(v) > MaxBatchSize
    THEN "Maximum 50 lot IDs allowed per batch"
    ELSE "ok"

\* generateBatchQRCodes; fails is the set of lots for which the QR library
\* throws
GenerateBatchQRCodes(user, body, fails) ==
    /\ LET base == [op |-> "generateBatchQRCodes", body |-> body, fails |-> fails]
       IN  IF CheckLotIds(body.lotIds) # "ok"
           THEN resp' = Answer(base @@ [status |-> 400,
                            message |-> CheckLotIds(body.lotIds)])
           ELSE LET found == InOrder(FindIn(Val(body.lotIds)))
                    out == BatchLoop(found, body.format, body.size, fails)
                IN  IF found = <<>>
                    THEN resp' = Answer(base @@ [status |-> 404,
                            message |-> "No lots found for the provided IDs"])
                    ELSE IF out.status # 200
                    THEN resp' = Answer(base @@ [status |-> 500,
                            message |-> "Error generating batch QR codes"])
                    ELSE resp' = Answer(base @@ [status |-> 200,
                            data |-> [qrCodes |-> out.qrCodes, format |-> body.format,
                                      size |-> body.size, total |-> Len(out.qrCodes),
                                      requested |-> Len(Val(body.lotIds))]])
    /\ UNCHANGED <<users, udoc, now, species, lots, nextId, doc, pend>>

\* --------------------------------------------------- specification: batch QR

QRSpeciesInputs ==
    [name : {"Tea"}, code : {<<"t">>}, minHeight : {1}, harvestDays : {1},
     createdBy : {"u1"}]

QRLotInputs ==
    [lotId : {<<"a">>, <<"B">>}, speciesId : DOMAIN species, plantedDate : {0},
     zone : {"Z1"}, locationId : {"L1"}, currentHeight : {0},
     diameter : {NoNum}, healthStatus : {Undefined}, photos : {<<>>},
     createdBy : {"u1"}]

\* the lot ids a request may name: stored ones and one that is never stored
RequestLotIds == {<<"A">>, <<"B">>, <<"T">>}

RECURSIVE SeqsUpTo(_, _)
SeqsUpTo(S, n) ==
    IF n = 0 THEN {<<>>}
    ELSE LET shorter == SeqsUpTo(S, n - 1)
         IN  shorter \cup {Append(q, x) : q \in shorter, x \in S}

BatchBodies ==
    [lotIds : {NoNum} \cup {Some(q) : q \in SeqsUpTo(RequestLotIds, MaxBatch)},
     format : {"base64"}, size : {DefaultQRSize}]
    \cup [lotIds : {Some(<<<<"A">>>>)}, format : {"png"}, size : {DefaultQRSize}]

NextQR ==
    \/ \E f \in QRSpeciesInputs : PlantSpeciesCreate(f)
    \/ \E f \in QRLotInputs : PlantLotCreate(f)
    \/ \E u \in {Protect(t).user : t \in {[kind |-> "valid", userId |-> "u1", role |-> "field"]}},
          b \in BatchBodies, fails \in SUBSET (DOMAIN lots) :
          GenerateBatchQRCodes(u, b, fails)

SpecQR == Init /\ [][NextQR]_vars

IsErrorMarker(e) == "error" \in DOMAIN e /\ "qrCode" \notin DOMAIN e
IsPayload(e) == "qrCode" \in DOMAIN e /\ "error" \notin DOMAIN e

\* the request passes the checks of lotIds: an array of 1 to 50 ids
BatchAnswered ==
    /\ resp.op = "generateBatchQRCodes"
    /\ Defined(resp.body.lotIds)
    /\ Len(Val(resp.body.lotIds)) \in 1..MaxBatchSize

Known(raw) == \E i \in DOMAIN lots : lots[i].lotId = raw

\* C5: the result list has exactly one entry per lot id of the request, in
\* particular an error-marked entry for each unknown id and a payload for
\* each known one (no QR library failure).
C5_OneEntryPerRequestedId ==
    (BatchAnswered /\ resp.fails = {}) =>
        /\ resp.status = 200
        /\ Len(resp.data.qrCodes) = Len(Val(resp.body.lotIds))
        /\ \A k \in 1..Len(Val(resp.body.lotIds)) :
              LET raw == Val(resp.body.lotIds)[k]
                  e == resp.data.qrCodes[k]
              IN  /\ e.lotId = raw
                  /\ IF Known(raw) THEN IsPayload(e) ELSE IsErrorMarker(e)

\* C6: when the QR library throws for some of the lots found, the answer is
\* still 200 with one entry per lot found, in the order of iteration: an
\* error marker for each lot it threw for and a payload for every other
\* lot, those after a failed one included.
C6_FailureDoesNotAbortBatch ==
    (BatchAnswered /\ FindIn(Val(resp.body.lotIds)) # {}) =>
        LET found == InOrder(FindIn(Val(resp.body.lotIds)))
        IN  /\ resp.status = 200
            /\ Len(resp.data.qrCodes) = Len(found)
            /\ resp.data.total = Len(found)
            /\ \A i \in 1..Len(found) :
                  LET e == resp.data.qrCodes[i]
                  IN  /\ e.lotId = lots[found[i]].lotId
                      /\ IF found[i] \in resp.fails THEN IsErrorMarker(e)
                         ELSE /\ IsPayload(e)
                              /\ JsonParse(e.qrCode.encodes).lotId = lots[found[i]].lotId

C6_Witness ==
    /\ BatchAnswered
    /\ resp.status = 200
    /\ Len(resp.data.qrCodes) = 2
    /\ IsErrorMarker(resp.data.qrCodes[1])
    /\ IsPayload(resp.data.qrCodes[2])

\* ------------------------------------------------ specification: lot requests

LotsSpeciesInputs ==
    [name : {"Tea"}, code : {<<"t">>}, minHeight : {1}, harvestDays : {1},
     createdBy : {"u1"}]

LotsLotInputs ==
    [lotId : {<<"a">>, <<"B">>}, speciesId : DOMAIN species, plantedDate : {0},
     zone : {"Z1"}, locationId : {"L1"}, currentHeight : {0},
     diameter : {NoNum}, healthStatus : {Undefined}, photos : {<<>>},
     createdBy : {"u1"}]

\* a species id that resolves to nothing
UnknownSpeciesId == MaxSpecies + 1

\* request bodies of createLot: the lot id in two spellings of one id and a
\* second id, the species known or not
CreateLotBodies ==
    [lotId : {<<"a">>, <<" ", "A">>, <<"B">>}, speciesId : {1, UnknownSpeciesId},
     plantedDate : {0}, zone : {"Z1"}, locationId : {"L1"}, currentHeight : {0},
     diameter : {NoNum}, healthStatus : {Undefined}, photos : {<<>>}]

NextLots ==
    \/ \E f \in LotsSpeciesInputs : PlantSpeciesCreate(f)
    \/ \E f \in LotsLotInputs : PlantLotCreate(f)
    \/ \E p \in Procs, b \in CreateLotBodies :
          CreateLotCheck(p, Protect([kind |-> "valid", userId |-> "u1",
                                     role |-> UserRole["u1"]]).user, b)
    \/ \E p \in Procs : CreateLotInsert(p)
    \/ \E u \in AuthenticatedUsers, id \in 1..MaxLots : GetLotById(u, id)
    \/ \E u \in AuthenticatedUsers, id \in 1..MaxLots : DeleteLot(u, id)

SpecLots == Init /\ [][NextLots]_vars

\* the ids given to lots that were stored: ids are handed out in sequence
\* and only to lots that are inserted
EverStored == 1..(nextId - 1)

\* C7: deleteLot of a stored lot by an actor who is not a manager answers
\* 403 and the lot stays stored and retrievable; by a manager it answers 200
\* and removes the lot; a removed lot never comes back, and getLotById of a
\* removed lot answers 404.
C7_DeleteOnlyByManager ==
    [][/\ (Answered /\ resp'.op = "deleteLot" /\ resp'.id \in DOMAIN lots) =>
              IF resp'.user.role # "manager"
              THEN /\ resp'.status = 403
                   /\ lots' = lots
              ELSE /\ resp'.status = 200
                   /\ resp'.id \notin DOMAIN lots'
       /\ \A id \in EverStored : id \notin DOMAIN lots => id \notin DOMAIN lots'
       /\ (Answered /\ resp'.op = "getLotById") =>
              /\ (resp'.id \in EverStored \ DOMAIN lots => resp'.status = 404)
              /\ (resp'.id \in DOMAIN lots => resp'.status = 200)
      ]_vars

C7_Witness ==
    /\ resp.op = "getLotById"
    /\ resp.status = 404
    /\ resp.id \in EverStored
    /\ resp.id \notin DOMAIN lots

\* C8: createLot whose speciesId resolves to no species answers 404, and
\* createLot whose lotId (as the schema stores it) is already stored answers
\* with an error status; in both cases the stored lots are unchanged.
C8_RejectedCreateLeavesStore ==
    [][(Answered /\ resp'.op = "createLot") =>
          /\ (resp'.body.speciesId \notin DOMAIN species =>
                 /\ resp'.status = 404
                 /\ lots' = lots)
          /\ ((\E i \in DOMAIN lots : lots[i].lotId = LotIdSetter(resp'.body.lotId)) =>
                 /\ resp'.status >= 400
                 /\ lots' = lots)
      ]_vars

C8_Witness ==
    /\ resp.op = "createLot"
    /\ resp.status = 400
    /\ resp.message = "Lot ID already exists"
    /\ resp.body.speciesId \in DOMAIN species
    /\ \E i \in DOMAIN lots : /\ lots[i].lotId = LotIdSetter(resp.body.lotId)
                              /\ lots[i].lotId # resp.body.lotId

\* C9: no two stored lots have the same lotId, compared as the schema
\* stores it (trimmed and upper-cased).
C9_LotIdUnique ==
    \A i, j \in DOMAIN lots :
        LotIdSetter(lots[i].lotId) = LotIdSetter(lots[j].lotId) => i = j

\* two createLot requests with one lotId are both past the existence check,
\* a lot with that lotId is stored and an insert of it has been refused
C9_Witness ==
    /\ pend[1] # <<>>
    /\ pend[2] # <<>>
    /\ LotIdSetter(pend[1][1].body.lotId) = LotIdSetter(pend[2][1].body.lotId)
    /\ \E i \in DOMAIN lots : lots[i].lotId = LotIdSetter(pend[1][1].body.lotId)
    /\ resp.op = "PlantLot.create"
    /\ resp.error = "E11000"

\* the fields of a pending createLot request are valid: with the actor's
\* identity as createdBy the schema and the index accept them
ValidRequest(r) ==
    CreateOutcome([CreateFields(r.body, r.user) EXCEPT !.createdBy = r.user.userId]) = "ok"

\* C10: a createLot request that passed authentication and carries valid
\* fields is answered 201 and stores the lot with createdBy equal to the
\* identity of the user that protect attached to the request.
C10_CreatedByIsActor ==
    [][\A p \in Procs :
          (pend[p] # <<>> /\ pend'[p] = <<>> /\ ValidRequest(pend[p][1])) =>
              /\ resp'.status = 201
              /\ nextId \in DOMAIN lots'
              /\ lots'[nextId].createdBy = pend[p][1].user.userId
      ]_vars

\* --------------------------------------------- specification: health records

HealthSpeciesInputs ==
    [name : {"Tea"}, code : {<<"t">>}, minHeight : {1}, harvestDays : {1},
     createdBy : {"u1"}]

HealthLotInputs ==
    [lotId : {<<"a">>}, speciesId : DOMAIN species, plantedDate : {0},
     zone : {"Z1"}, locationId : {"L1"}, currentHeight : {0},
     diameter : {NoNum}, healthStatus : HealthStatuses, photos : {<<>>},
     createdBy : {"u1"}]

\* the statuses a caller passes: the enumeration and one value outside it
HealthStatusInputs == HealthStatuses \cup {"healthy"}

NextHealth ==
    \/ \E f \in HealthSpeciesInputs : PlantSpeciesCreate(f)
    \/ \E f \in HealthLotInputs : PlantLotCreate(f)
    \/ \E id \in DOMAIN lots : LoadLot(1, id, {})
    \/ \E st \in HealthStatusInputs, by \in {"u1", Undefined} : AddHealthRecord(1, st, by)

SpecHealth == Init /\ [][NextHealth]_vars

\* C11: a successful addHealthRecord(status, ...) appends exactly one record,
\* carrying status, to the stored healthRecords and sets the stored
\* healthStatus to status; and a call with a status of the enumeration and a
\* recorder, on a freshly loaded document of a stored lot, succeeds whatever
\* the lot's status was before.
C11_AnyTransitionAppendsOne ==
    [][(Answered /\ resp'.op = "addHealthRecord") =>
          LET id == resp'.id
          IN  /\ resp'.ok =>
                    /\ Len(lots'[id].healthRecords) = Len(lots[id].healthRecords) + 1
                    /\ SubSeq(lots'[id].healthRecords, 1, Len(lots[id].healthRecords))
                           = lots[id].healthRecords
                    /\ Last(lots'[id].healthRecords).status = resp'.status
                    /\ lots'[id].healthStatus = resp'.status
              /\ (/\ resp'.status \in HealthStatuses
                  /\ resp'.recordedBy # Undefined
                  /\ resp'.clean
                  /\ id \in DOMAIN lots) => resp'.ok
      ]_vars

C11_Witness ==
    /\ resp.op = "addHealthRecord"
    /\ resp.ok
    /\ resp.previous = "dead"
    /\ resp.status = "excellent"
    /\ lots[resp.id].healthStatus = "excellent"

\* ------------------------------------------------- specification: harvesting

HarvestSpeciesInputs ==
    [name : {"Tea"}, code : {<<"t">>}, minHeight : {1}, harvestDays : {1},
     createdBy : {"u1"}]

HarvestLotInputs ==
    [lotId : {<<"a">>}, speciesId : DOMAIN species, plantedDate : {0},
     zone : {"Z1"}, locationId : {"L1"}, currentHeight : {0, 1},
     diameter : {NoNum}, healthStatus : {Undefined}, photos : {<<>>},
     createdBy : {"u1"}]

\* <<quantity, unit, quality>> as a caller passes them
HarvestInputs ==
    {<<Some(0), Undefined, Undefined>>, <<Some(5), "g", "premium">>,
     <<Some(-1), Undefined, Undefined>>}

NextHarvest ==
    \/ Tick
    \/ \E f \in HarvestSpeciesInputs : PlantSpeciesCreate(f)
    \/ \E f \in HarvestLotInputs : PlantLotCreate(f)
    \/ \E id \in DOMAIN lots : LoadLot(1, id, ThresholdFields)
    \/ \E h \in HarvestInputs : Harvest(1, "u1", h[1], h[2], h[3])
    \/ FindUnharvested

SpecHarvest == Init /\ [][NextHarvest]_vars

\* C12: harvest with a quantity >= 0 on a freshly loaded document of a
\* stored lot succeeds, ready for harvest or not, and stores isHarvested =
\* true, harvestedDate = the current time, the quantity, the unit (kg when
\* omitted) and the quality; a harvested lot stays harvested and
\* findUnharvested never returns it.
C12_HarvestRecordsAndHides ==
    [][/\ (Answered /\ resp'.op = "harvest" /\ resp'.clean /\ resp'.id \in DOMAIN lots
              /\ Defined(resp'.quantity) /\ Val(resp'.quantity) >= 0) =>
              LET h == lots'[resp'.id].harvestInfo
              IN  /\ resp'.ok
                  /\ h.isHarvested
                  /\ h.harvestedDate = Some(now)
                  /\ h.yield.quantity = resp'.quantity
                  /\ h.yield.unit = (IF resp'.unit = Undefined THEN "kg" ELSE resp'.unit)
                  /\ h.quality = resp'.quality
       /\ \A id \in DOMAIN lots :
              lots[id].harvestInfo.isHarvested =>
                  /\ id \in DOMAIN lots'
                  /\ lots'[id].harvestInfo.isHarvested
       /\ (Answered /\ resp'.op = "findUnharvested") =>
              \A id \in resp'.ids : ~lots[id].harvestInfo.isHarvested
      ]_vars

\* a lot harvested while not ready, and the query after it
C12_Witness ==
    /\ resp.op = "findUnharvested"
    /\ \E id \in DOMAIN lots :
          /\ lots[id].harvestInfo.isHarvested
          /\ lots[id].harvestInfo.harvestedDate = Some(0)
          /\ lots[id].harvestInfo.yield.unit = "kg"
          /\ id \notin resp.ids
          /\ ~IsReadyForHarvest(Hydrate(id, ThresholdFields), 0).value

\* ------------------------------------------------ specification: age of a lot

AgeSpeciesInputs ==
    [name : {"Tea"}, code : {<<"t">>}, minHeight : {1}, harvestDays : {1},
     createdBy : {"u1"}]

AgeLotInputs ==
    [lotId : {<<"a">>, <<"B">>}, speciesId : DOMAIN species,
     plantedDate : {0, HalfDay, DayMs},
     zone : {"Z1"}, locationId : {"L1"}, currentHeight : {0},
     diameter : {NoNum}, healthStatus : {Undefined}, photos : {<<>>},
     createdBy : {"u1"}]

NextAge ==
    \/ Tick
    \/ \E f \in AgeSpeciesInputs : PlantSpeciesCreate(f)
    \/ \E f \in AgeLotInputs : PlantLotCreate(f)
    \/ \E p \in Procs, id \in DOMAIN lots : LoadLot(p, id, {})
    \/ \E p \in Procs : CallGetDaysFromPlanting(p)

SpecAge == Init /\ [][NextAge]_vars

\* C13: getDaysFromPlanting() of a lot planted at d, evaluated at time t, is
\* the integer q with q days <= t - d < (q + 1) days, that is
\* floor((t - d) / 1 day); and for each document held the value never
\* decreases as the clock advances.
C13_AgeIsFloorAndMonotone ==
    [][/\ (Answered /\ resp'.op = "getDaysFromPlanting") =>
              /\ resp'.value * DayMs <= resp'.at - resp'.plantedDate
              /\ resp'.at - resp'.plantedDate < (resp'.value + 1) * DayMs
       /\ \A p \in Procs :
              (doc[p] # <<>> /\ doc'[p] = doc[p]) =>
                  GetDaysFromPlanting(doc[p][1].lot, now')
                      >= GetDaysFromPlanting(doc[p][1].lot, now)
      ]_vars

\* a lot one and a half days old is one day old
C13_Witness ==
    /\ resp.op = "getDaysFromPlanting"
    /\ resp.at - resp.plantedDate = DayMs + HalfDay
    /\ resp.value = 1

\* ------------------------------------------ specification: ready for harvest

FindSpeciesInputs ==
    [name : {"Tea"}, code : {<<"t">>}, minHeight : {0, 1}, harvestDays : {1},
     createdBy : {"u1"}]

FindLotInputs ==
    [lotId : {<<"a">>, <<"B">>}, speciesId : DOMAIN species, plantedDate : {0},
     zone : {"Z1"}, locationId : {"L1"}, currentHeight : {0, 1},
     diameter : {NoNum}, healthStatus : {Undefined}, photos : {<<>>},
     createdBy : {"u1"}, isActive : BOOLEAN]

NextFind ==
    \/ Tick
    \/ \E f \in FindSpeciesInputs : PlantSpeciesCreate(f)
    \/ \E f \in FindLotInputs : PlantLotCreate(f)
    \/ FindReadyForHarvest

SpecFind == Init /\ [][NextFind]_vars

\* harvest readiness of a stored lot against its resolved species at time t
ReadyAgainstSpecies(l, t) ==
    /\ l.speciesId \in DOMAIN species
    /\ (t - l.plantedDate) \div DayMs >= species[l.speciesId].harvestDays
    /\ l.currentHeight >= species[l.speciesId].minHeight

\* C14: findReadyForHarvest returns exactly the active lots that are ready
\* for harvest against their resolved species.
C14_ExactlyTheReadyActiveLots ==
    [][(Answered /\ resp'.op = "findReadyForHarvest") =>
          resp'.ids = {i \in DOMAIN lots :
                          lots[i].isActive /\ ReadyAgainstSpecies(lots[i], now)}
      ]_vars

\* ------------------------------------------- specification: QR code of a lot

QRLotSpeciesInputs ==
    [name : {"Tea"}, code : {<<"t">>}, minHeight : {1}, harvestDays : {1},
     createdBy : {"u1"}]

QRLotLotInputs ==
    [lotId : {<<"a">>, <<"B">>}, speciesId : DOMAIN species, plantedDate : {0},
     zone : {"Z1", "Z2"}, locationId : {"L1"}, currentHeight : {0},
     diameter : {NoNum}, healthStatus : {Undefined}, photos : {<<>>},
     createdBy : {"u1"}]

\* the lotId of the route, the format of the query, and whether the QR
\* library throws
QRLotRequests ==
    [lotId : {<<"a">>, <<"B">>, <<"T">>}, format : {"base64", "png", "svg"},
     failed : BOOLEAN]

NextQRLot ==
    \/ \E f \in QRLotSpeciesInputs : PlantSpeciesCreate(f)
    \/ \E f \in QRLotLotInputs : PlantLotCreate(f)
    \/ \E u \in AuthenticatedUsers, q \in QRLotRequests :
          GenerateLotQRCode(u, q.lotId, q.format, DefaultQRSize, q.failed)
    \/ \E u \in AuthenticatedUsers, q \in QRLotRequests :
          GenerateLotInfoQRCode(u, q.lotId, q.format, DefaultQRSize, q.failed)

SpecQRLot == Init /\ [][NextQRLot]_vars

\* what a reader decodes from the QR image of an answer
Decoded(r) == IF "data" \in DOMAIN r THEN r.data.qrCode.encodes ELSE r.buffer.encodes

\* C15: for a stored lot, the text encoded by generateLotInfoQRCode is the
\* lot's lookup URL and nothing else, and the text encoded by
\* generateLotQRCode, parsed as JSON, gives the stored lotId, the species
\* code, the zone and the locationId, and the same lookup URL.
C15_QRTextRoundTrips ==
    [][(Answered /\ resp'.op \in {"generateLotQRCode", "generateLotInfoQRCode"}) =>
          \A id \in DOMAIN lots :
              lots[id].lotId = LotIdSetter(resp'.lotId) =>
                  /\ (resp'.format \in {"base64", "png"} /\ ~resp'.failed) =>
                         resp'.status = 200
                  /\ (resp'.status = 200 /\ resp'.op = "generateLotInfoQRCode") =>
                         /\ Decoded(resp') = [origin |-> "http://host",
                                              path |-> "/api/lots/", id |-> id]
                  /\ (resp'.status = 200 /\ resp'.op = "generateLotQRCode") =>
                         LET parsed == JsonParse(Decoded(resp'))
                         IN  /\ parsed.lotId = lots[id].lotId
                             /\ parsed.speciesCode = species[lots[id].speciesId].code
                             /\ parsed.zone = lots[id].zone
                             /\ parsed.locationId = lots[id].locationId
                             /\ parsed.url = [origin |-> "http://host",
                                              path |-> "/api/lots/", id |-> id]
      ]_vars

C15_Witness ==
    /\ resp.op = "generateLotQRCode"
    /\ resp.status = 200
    /\ resp.format = "png"
    /\ resp.lotId = <<"a">>
    /\ JsonParse(Decoded(resp)).lotId = <<"A">>
    /\ JsonParse(Decoded(resp)).zone = "Z2"
    /\ Cardinality(DOMAIN lots) = 2

\* ------------------------------------------------------------------ routers

\* what a request carries as its Authorization header: a token signed for a
\* user, none, a header that is no Bearer header, or a token that does not
\* verify
Tokens == ValidTokens \cup {[kind |-> "missing"], [kind |-> "malformed"], [kind |-> "invalid"]}

\* the answer of protect to a request it refuses
Denied(tok, rq) ==
    /\ resp' = Answer([op |-> "protect", status |-> 401, token |-> tok, route |-> rq.route])
    /\ UNCHANGED <<users, udoc, now, species, lots, nextId, doc, pend>>

\* the routes of the lot router behind router.use(protect)
LotRoutes == {"POST /", "GET /:id", "PUT /:id", "DELETE /:id"}

LotHandler(user, rq) ==
    CASE rq.route = "POST /" -> CreateLotCheck(rq.p, user, rq.body)
      [] rq.route = "GET /:id" -> GetLotById(user, rq.id)
      [] rq.route = "PUT /:id" -> UpdateLot(user, rq.id, rq.body)
      [] rq.route = "DELETE /:id" -> DeleteLot(user, rq.id)

LotRouterGetUnprotected(tok, rq) ==
    IF rq.route = "GET /:id" THEN LotHandler(Protect(tok).user, rq)
    ELSE IF Protect(tok).status # 200 THEN Denied(tok, rq)
    ELSE LotHandler(Protect(tok).user, rq)

LotRouter(tok, rq) ==
    IF Protect(tok).status # 200 THEN Denied(tok, rq)
    ELSE LotHandler(Protect(tok).user, rq)

\* the routes of the QR router behind router.use(protect)
QRRoutes == {"GET /lot/:lotId", "GET /lot/:lotId/info", "POST /lots/batch"}

QRHandler(user, rq) ==
    CASE rq.route = "GET /lot/:lotId" ->
            GenerateLotQRCode(user, rq.lotId, rq.format, DefaultQRSize, FALSE)
      [] rq.route = "GET /lot/:lotId/info" ->
            GenerateLotInfoQRCode(user, rq.lotId, rq.format, DefaultQRSize, FALSE)
      [] rq.route = "POST /lots/batch" -> GenerateBatchQRCodes(user, rq.body, {})

QRRouter(tok, rq) ==
    IF Protect(tok).status # 200 THEN Denied(tok, rq)
    ELSE QRHandler(Protect(tok).user, rq)

\* ------------------------------------------------- specification: the routes

AuthSpeciesInputs ==
    [name : {"Tea"}, code : {<<"t">>}, minHeight : {1}, harvestDays : {1},
     createdBy : {"u1"}]

AuthLotInputs ==
    [lotId : {<<"a">>}, speciesId : DOMAIN species, plantedDate : {0},
     zone : {"Z1"}, locationId : {"L1"}, currentHeight : {0},
     diameter : {NoNum}, healthStatus : {Undefined}, photos : {<<>>},
     createdBy : {"u1"}]

AuthCreateBody ==
    [lotId |-> <<"B">>, speciesId |-> 1, plantedDate |-> 0, zone |-> "Z2",
     locationId |-> "L1", currentHeight |-> 0, diameter |-> NoNum,
     healthStatus |-> Undefined, photos |-> <<>>]

AuthUpdateBody ==
    [currentHeight |-> NoNum, diameter |-> Some(4), healthStatus |-> Undefined,
     photos |-> NoNum, zone |-> "Z2", locationId |-> Undefined]

LotRequests ==
    {[route |-> r, p |-> 1, id |-> 1,
      body |-> IF r = "POST /" THEN AuthCreateBody ELSE AuthUpdateBody] : r \in LotRoutes}

QRRequests ==
    [route : QRRoutes, lotId : {<<"a">>}, format : {"base64"},
     body : {[lotIds |-> Some(<<<<"A">>>>), format |-> "base64", size |-> DefaultQRSize]}]

NextAuth ==
    \/ \E f \in AuthSpeciesInputs : PlantSpeciesCreate(f)
    \/ \E f \in AuthLotInputs : PlantLotCreate(f)
    \/ \E tok \in Tokens, rq \in LotRequests : LotRouter(tok, rq)
    \/ \E p \in Procs : CreateLotInsert(p)
    \/ \E tok \in Tokens, rq \in QRRequests : QRRouter(tok, rq)

SpecAuth == Init /\ [][NextAuth]_vars

\* C16: every step of a lot route or a QR route taken for a request whose
\* token is missing, malformed or invalid is the 401 answer of protect and
\* changes neither the stored lots nor any document or request in flight:
\* no handler runs for it.
C16_NoHandlerWithoutToken ==
    [][\A tok \in Tokens \ ValidTokens :
          /\ \A rq \in LotRequests :
                LotRouter(tok, rq) =>
                    /\ resp'.op = "protect"
                    /\ resp'.status = 401
                    /\ lots' = lots /\ doc' = doc /\ pend' = pend
          /\ \A rq \in QRRequests :
                QRRouter(tok, rq) =>
                    /\ resp'.op = "protect"
                    /\ resp'.status = 401
                    /\ lots' = lots /\ doc' = doc /\ pend' = pend
      ]_vars

\* a manager-only delete of a stored lot asked for with a malformed header
C16_Witness ==
    /\ resp.op = "protect"
    /\ resp.status = 401
    /\ resp.token.kind = "malformed"
    /\ resp.route = "DELETE /:id"
    /\ 1 \in DOMAIN lots

\* ------------------------------------------- error answers of the lot routes

\* C17: whenever updateLot answers 400 or 404 the stored lots are what they
\* were before the request.
C17_FailedUpdateLeavesLot ==
    [][(Answered /\ resp'.op = "updateLot" /\ resp'.status \in {400, 404}) =>
          lots' = lots
      ]_vars

\* the errors the handlers expect: validation and conflict (not-found is
\* answered without a throw)
ExpectedErrors == {"ValidationError", "E11000"}
GenericMessages == {"Error creating plant lot", "Error updating plant lot"}

\* C18: a failure of createLot or updateLot that is no validation, conflict
\* or not-found error is answered 500 with the fixed generic message, and
\* never with the message of the error thrown.
C18_UnexpectedFailureIsGeneric500 ==
    (/\ resp.op \in {"createLot", "updateLot"}
     /\ resp.thrown \notin ExpectedErrors \cup {"none"}) =>
        /\ resp.status = 500
        /\ resp.message \in GenericMessages
        /\ resp.message # resp.thrown

\* ------------------------------------------------ specification: lot dates

DatesSpeciesInputs ==
    [name : {"Tea"}, code : {<<"t">>}, minHeight : {1}, harvestDays : {1},
     createdBy : {"u1"}]

\* planted now or earlier, or in the future
DatesLotInputs ==
    [lotId : {<<"a">>}, speciesId : DOMAIN species,
     plantedDate : {0, HalfDay, 2 * DayMs + HalfDay},
     zone : {"Z1"}, locationId : {"L1"}, currentHeight : {0},
     diameter : {NoNum}, healthStatus : {Undefined}, photos : {<<>>},
     createdBy : {"u1"}]

DatesCreateBody ==
    [lotId |-> <<"B">>, speciesId |-> 1, plantedDate |-> DayMs, zone |-> "Z1",
     locationId |-> "L1", currentHeight |-> 0, diameter |-> NoNum,
     healthStatus |-> Undefined, photos |-> <<>>]

DatesUser == Protect([kind |-> "valid", userId |-> "u2", role |-> UserRole["u2"]]).user

NextDates ==
    \/ Tick
    \/ \E f \in DatesSpeciesInputs : PlantSpeciesCreate(f)
    \/ \E f \in DatesLotInputs : PlantLotCreate(f)
    \/ CreateLotCheck(2, DatesUser, DatesCreateBody)
    \/ CreateLotInsert(2)
    \/ \E id \in DOMAIN lots : UpdateLot(DatesUser, id, [NoUpdate EXCEPT !.diameter = Some(4)])
    \/ \E id \in DOMAIN lots : LoadLot(1, id, {})
    \/ AddGrowthMeasurement(1, 1, NoNum, "u1")
    \/ Harvest(1, "u1", Some(5), Undefined, Undefined)

SpecDates == Init /\ [][NextDates]_vars

\* C19: every stored lot has plantedDate <= the current time, and its
\* harvestedDate, when set, is >= its plantedDate.
C19_DatesInOrder ==
    \A id \in DOMAIN lots :
        /\ lots[id].plantedDate <= now
        /\ Defined(lots[id].harvestInfo.harvestedDate) =>
               Val(lots[id].harvestInfo.harvestedDate) >= lots[id].plantedDate

\* a lot planted half a day in, harvested later, and a create with a
\* planted date in the future refused
C19_Witness ==
    /\ resp.op = "PlantLot.create"
    /\ resp.error = "ValidationError"
    /\ \E id \in DOMAIN lots :
          /\ lots[id].plantedDate = HalfDay
          /\ Defined(lots[id].harvestInfo.harvestedDate)
          /\ Val(lots[id].harvestInfo.harvestedDate) > lots[id].plantedDate
          /\ Len(lots[id].growthMeasurements) > 0

\* ------------------------------------------- specification: species heights

HeightSpeciesInputs ==
    [name : {"Tea", "Oak"}, code : {<<"t">>, <<"a">>}, minHeight : {0, 1, 2},
     harvestDays : {1}, createdBy : {"u1"},
     maxHeight : {NoNum, Some(-1), Some(0), Some(1), Some(2)}]

NextHeights ==
    \/ \E f \in HeightSpeciesInputs : PlantSpeciesCreate(f)

SpecHeights == Init /\ [][NextHeights]_vars

\* C20: every stored species that has a maxHeight value has maxHeight >=
\* minHeight (a species whose maxHeight is smaller fails validation and is
\* not stored).
C20_MaxHeightAtLeastMin ==
    \A i \in DOMAIN species :
        "maxHeight" \in DOMAIN species[i] =>
            Val(species[i].maxHeight) >= species[i].minHeight

\* ------------------------------------------ specification: species catalog

\* codes in lower, upper and mixed case, one with surrounding blanks, one
\* that fails the pattern; active and deactivated species
CatalogSpeciesInputs ==
    [name : {"Tea", "Oak"},
     code : {<<"a", "b">>, <<" ", "a", "B">>, <<"T">>, <<"b", "-">>},
     minHeight : {1}, harvestDays : {1}, createdBy : {"u1"}, isActive : BOOLEAN]

CatalogCodes ==
    {<<"a", "b">>, <<"A", "B">>, <<"a", "B">>, <<"t">>, <<"T">>, <<"b">>, <<"b", "a">>}

NextCatalog ==
    \/ \E f \in CatalogSpeciesInputs : PlantSpeciesCreate(f)
    \/ \E raw \in CatalogCodes : FindByCode(raw)

SpecCatalog == Init /\ [][NextCatalog]_vars

\* raw is the code of document s written in some letter case
SameCodeAnyCase(raw, s) == ToUpperCase(raw) = s.code

\* the species S saved from input f under identity id is in the store
Saved(f, id) == id \in DOMAIN species /\ species[id] = NewSpeciesDoc(f, id)

\* C21 as stated: for every saved species S, findByCode of S's code in any
\* letter case answers the document of S (every field of S, and its
\* identity); findByCode of a code no stored species has answers null.
C21_LookupReturnsSaved ==
    [][(Answered /\ resp'.op = "findByCode") =>
          /\ \A f \in CatalogSpeciesInputs, id \in 1..MaxSpecies :
                 (Saved(f, id) /\ SameCodeAnyCase(resp'.code, species[id])) =>
                     resp'.value = <<NewSpeciesDoc(f, id)>>
          /\ (\A id \in DOMAIN species : ~SameCodeAnyCase(resp'.code, species[id])) =>
                 resp'.value = <<>>
      ]_vars

\* C21 amended: the same for every saved species S that is active; for a
\* saved species with isActive false, and for a code no stored species has,
\* findByCode answers null.
C21_LookupReturnsSavedActive ==
    [][(Answered /\ resp'.op = "findByCode") =>
          /\ \A f \in CatalogSpeciesInputs, id \in 1..MaxSpecies :
                 (Saved(f, id) /\ SameCodeAnyCase(resp'.code, species[id])) =>
                     resp'.value = IF f.isActive THEN <<NewSpeciesDoc(f, id)>> ELSE <<>>
          /\ (\A id \in DOMAIN species : ~SameCodeAnyCase(resp'.code, species[id])) =>
                 resp'.value = <<>>
      ]_vars

\* a species saved under a lower-case code is found by its mixed-case code
\* while a second species is in the store
C21_Witness ==
    /\ resp.op = "findByCode"
    /\ resp.code = <<"a", "B">>
    /\ resp.value # <<>>
    /\ resp.value[1].code = <<"A", "B">>
    /\ Cardinality(DOMAIN species) = 2

\* ------------------------------------- specification: batch size limits

BatchLimitSpeciesInputs ==
    [name : {"Tea"}, code : {<<"t">>}, minHeight : {1}, harvestDays : {1},
     createdBy : {"u1"}]

BatchLimitLotInputs ==
    [lotId : {<<"a">>, <<"B">>}, speciesId : DOMAIN species, plantedDate : {0},
     zone : {"Z1"}, locationId : {"L1"}, currentHeight : {0},
     diameter : {NoNum}, healthStatus : {Undefined}, photos : {<<>>},
     createdBy : {"u1"}]

\* a list of n lot ids, a stored id and an unknown one in turn
IdList(n) == [i \in 1..n |-> IF i % 2 = 1 THEN <<"A">> ELSE <<"T">>]

\* lotIds missing, a string (empty or not), and arrays of 0, 1, 2, 49, 50,
\* 51 and 52 ids
BatchLimitBodies ==
    [lotIds : {NoNum, <<"string", <<>>>>, <<"string", <<"A", "B">>>>}
              \cup {Some(IdList(n)) : n \in {0, 1, 2, MaxBatchSize - 1, MaxBatchSize,
                                            MaxBatchSize + 1, MaxBatchSize + 2}},
     format : {"base64"}, size : {DefaultQRSize}]

BatchLimitUser == Protect([kind |-> "valid", userId |-> "u1", role |-> "field"]).user

NextBatchLimit ==
    \/ \E f \in BatchLimitSpeciesInputs : PlantSpeciesCreate(f)
    \/ \E f \in BatchLimitLotInputs : PlantLotCreate(f)
    \/ \E b \in BatchLimitBodies, fails \in SUBSET (DOMAIN lots) :
          GenerateBatchQRCodes(BatchLimitUser, b, fails)

SpecBatchLimit == Init /\ [][NextBatchLimit]_vars

\* the body's lotIds is an array of 1 to 50 ids
ListOfOneToFifty(v) == Len(v) = 1 /\ Len(v[1]) >= 1 /\ Len(v[1]) <= 50

\* C22: generateBatchQRCodes answers 400 without any QR code when lotIds is
\* missing, is no array, is empty or holds more than 50 ids, and never
\* answers 400 for a list of 1 to 50 ids.
C22_BatchSizeChecked ==
    resp.op = "generateBatchQRCodes" =>
        IF ListOfOneToFifty(resp.body.lotIds)
        THEN resp.status # 400
        ELSE resp.status = 400 /\ "data" \notin DOMAIN resp

\* a list of 50 ids was served and the store holds a lot it names
C22_WitnessServed ==
    /\ resp.op = "generateBatchQRCodes"
    /\ resp.body.lotIds = Some(IdList(MaxBatchSize))
    /\ resp.status = 200
    /\ Len(resp.data.qrCodes) = 1

\* a list of 51 ids was refused while the store holds a lot it names
C22_Witness ==
    /\ resp.op = "generateBatchQRCodes"
    /\ resp.body.lotIds = Some(IdList(MaxBatchSize + 1))
    /\ resp.status = 400
    /\ lots # << >>

\* ------------------------------------------------ specification: passwords

\* the string of n characters that ends in c
Padded(n, c) == [i \in 1..n |-> IF i = n THEN c ELSE "x"]

\* a password too short for the schema, one of the minimal length, and two
\* that differ only after the bytes bcrypt reads
Plaintexts ==
    {Padded(PasswordMinLength - 1, "a"), Padded(PasswordMinLength, "a"),
     Padded(BcryptInputBytes + 1, "a"), Padded(BcryptInputBytes + 1, "b")}

FirstUserInputs ==
    [name : {"n1"}, email : {"e1"},
     passwordHash : {Padded(PasswordMinLength - 1, "a"), Padded(PasswordMinLength, "a")},
     role : {Undefined}]

SecondUserInput ==
    [name |-> "n2", email |-> "e2", passwordHash |-> Padded(PasswordMinLength, "a"),
     role |-> "manager"]

\* the first holder makes a user, edits and saves it and checks passwords;
\* the second registers the user whose email the first may collide with
NextUsers ==
    \/ \E f \in FirstUserInputs : udoc[1] = <<>> /\ NewUser(1, f)
    \/ udoc[2] = <<>> /\ NewUser(2, SecondUserInput)
    \/ SetUserPath(1, "passwordHash", Padded(BcryptInputBytes + 1, "a"))
    \/ \E e \in {"e1", "e2"} : SetUserPath(1, "email", e)
    \/ \E salt \in Salts : SaveUser(1, salt)
    \/ SaveUser(2, "1")
    \/ \E c \in Plaintexts : ComparePassword(1, c)

SpecUsers == Init /\ [][NextUsers]_vars

\* the document p holds is saved: the store holds it as it is in memory
IsSaved(p) ==
    /\ udoc[p] # <<>>
    /\ udoc[p][1].f._id \in DOMAIN users
    /\ users[udoc[p][1].f._id] = udoc[p][1].f

\* C23: a save that succeeds never stores the plaintext that was assigned,
\* and leaves the stored hash as it was when passwordHash was not modified
\* since the previous save; on a saved document comparePassword(p) is true
\* exactly for the plaintext most recently assigned.
C23_HashedExactlyWhenModified ==
    [][/\ (Answered /\ resp'.op = "User.save" /\ resp'.ok) =>
            /\ users'[resp'.id].passwordHash # resp'.plain
            /\ (resp'.id \in DOMAIN users /\ ~resp'.modified) =>
                   users'[resp'.id].passwordHash = users[resp'.id].passwordHash
       /\ (Answered /\ resp'.op = "comparePassword" /\ IsSaved(resp'.by)) =>
            resp'.value = (resp'.candidate = udoc[resp'.by][1].plain)
      ]_vars

\* -------------------------------------------- updateLot with currentHeight

\* C24: updateLot on a stored lot with currentHeight in the body answers 200,
\* appends exactly one growth entry with that height, recorded by the
\* requesting user, to the stored lot and sets its currentHeight.
C24_UpdateAppendsMeasurement ==
    [][(/\ Answered
        /\ resp'.op = "updateLot"
        /\ resp'.id \in DOMAIN lots
        /\ Defined(resp'.body.currentHeight)) =>
          /\ resp'.status = 200
          /\ Len(lots'[resp'.id].growthMeasurements) =
                 Len(lots[resp'.id].growthMeasurements) + 1
          /\ Last(lots'[resp'.id].growthMeasurements).height = Val(resp'.body.currentHeight)
          /\ lots'[resp'.id].currentHeight = Val(resp'.body.currentHeight)
      ]_vars

\* ---------------------------------------- specification: operations on a lot

OpsSpeciesInputs ==
    [name : {"Tea"}, code : {<<"t">>}, minHeight : {1}, harvestDays : {1},
     createdBy : {"u1"}]

OpsLotInputs ==
    [lotId : {<<"a">>}, speciesId : DOMAIN species, plantedDate : {0},
     zone : {"Z1"}, locationId : {"L1"}, currentHeight : {0},
     diameter : {NoNum}, healthStatus : {Undefined}, photos : {<<>>},
     createdBy : {"u1"}]

\* bodies of updateLot: a photo, and a height
OpsUpdateBodies ==
    {[NoUpdate EXCEPT !.photos = Some(<<[url |-> "p2", takenBy |-> "u2", takenAt |-> 0]>>)],
     [NoUpdate EXCEPT !.currentHeight = Some(3)]}

OpsUser == Protect([kind |-> "valid", userId |-> "u2", role |-> UserRole["u2"]]).user

\* holder 1 loads a lot once and calls the methods of the model on it; holder
\* 2 is a running updateLot
NextOps ==
    \/ \E f \in OpsSpeciesInputs : PlantSpeciesCreate(f)
    \/ \E f \in OpsLotInputs : PlantLotCreate(f)
    \/ \E id \in DOMAIN lots : doc[1] = <<>> /\ LoadLot(1, id, {})
    \/ AddGrowthMeasurement(1, 1, NoNum, "u1")
    \/ AddHealthRecord(1, "poor", "u1")
    \/ AddPhoto(1, "p1", "u1")
    \/ /\ doc[1] # <<>>
       /\ ~doc[1][1].lot.harvestInfo.isHarvested
       /\ Harvest(1, "u1", Some(5), Undefined, Undefined)
    \/ \E id \in DOMAIN lots : UpdateLotFind(2, id)
    \/ \E b \in OpsUpdateBodies :
          /\ doc[2] # <<>>
          /\ Defined(b.photos) => Len(doc[2][1].lot.photos) < MaxPhotos
          /\ UpdateLotSave(2, OpsUser, b)

SpecOps == Init /\ [][NextOps]_vars

IsPrefix(a, b) == Len(a) <= Len(b) /\ SubSeq(b, 1, Len(a)) = a

Histories == {"growthMeasurements", "healthRecords", "photos"}

\* the history an operation is about
About(op) ==
    CASE op = "addGrowthMeasurement" -> {"growthMeasurements"}
      [] op = "addHealthRecord" -> {"healthRecords"}
      [] op = "addPhoto" -> {"photos"}
      [] op = "updateLot" -> {"growthMeasurements", "photos"}
      [] OTHER -> {}

\* C26: every step leaves each stored history of a lot a prefix of what it
\* becomes, and an operation that answers changes no history but the one it
\* is about (updateLot: growth measurements and photos).
C26_HistoriesAppendOnly ==
    [][\A id \in DOMAIN lots :
          /\ id \in DOMAIN lots'
          /\ \A h \in Histories : IsPrefix(lots[id][h], lots'[id][h])
          /\ Answered =>
                \A h \in Histories \ About(resp'.op) : lots'[id][h] = lots[id][h]
      ]_vars

\* an updateLot that carries a photo was refused because a photo had been
\* added to the lot after the handler read it
C26_Witness ==
    /\ resp.op = "updateLot"
    /\ Defined(resp.body.photos)
    /\ resp.thrown = "VersionError"
    /\ Len(lots[resp.id].photos) = 1
    /\ lots[resp.id].photos[1].url = "p1"
    /\ lots[resp.id].growthMeasurements # <<>>
    /\ lots[resp.id].healthRecords # <<>>

\* ------------------------------------------- specification: updates of a lot

UpdSpeciesInputs ==
    [name : {"Tea"}, code : {<<"t">>}, minHeight : {1}, harvestDays : {1},
     createdBy : {"u1"}]

UpdLotInputs ==
    [lotId : {<<"a">>}, speciesId : DOMAIN species, plantedDate : {0},
     zone : {"Z1"}, locationId : {"L1"}, currentHeight : {0},
     diameter : {NoNum}, healthStatus : {Undefined}, photos : {<<>>},
     createdBy : {"u1"}]

\* bodies of updateLot: a health status, a diameter that validation refuses,
\* and a zone sent along with fields the handler does not read
UpdBodies ==
    {[NoUpdate EXCEPT !.healthStatus = "fair"],
     [NoUpdate EXCEPT !.diameter = Some(-1)],
     [NoUpdate EXCEPT !.zone = "Z2"]
         @@ [lotId |-> <<"B">>, speciesId |-> MaxSpecies + 1, plantedDate |-> HalfDay,
             createdBy |-> "u2",
             harvestInfo |-> [NoHarvest EXCEPT !.isHarvested = TRUE]]}

\* holder 1 records the health of a lot and harvests it; holder 2 is a
\* running updateLot
NextUpd ==
    \/ \E f \in UpdSpeciesInputs : PlantSpeciesCreate(f)
    \/ \E f \in UpdLotInputs : PlantLotCreate(f)
    \/ \E id \in DOMAIN lots : LoadLot(1, id, {})
    \/ \E st \in {"poor", "dead"} : AddHealthRecord(1, st, "u1")
    \/ Harvest(1, "u1", Some(5), Undefined, Undefined)
    \/ \E id \in DOMAIN lots : UpdateLotFind(2, id)
    \/ \E b \in UpdBodies : UpdateLotSave(2, OpsUser, b)

SpecUpd == Init /\ [][NextUpd]_vars

\* C25: a stored lot that has health records has the status of the last of
\* them as its healthStatus.
C25_StatusIsLastRecord ==
    \A id \in DOMAIN lots :
        lots[id].healthRecords # <<>> =>
            lots[id].healthStatus = Last(lots[id].healthRecords).status

FixedAtCreation == {"lotId", "speciesId", "plantedDate", "createdBy", "harvestInfo"}

\* C27: updateLot leaves lotId, speciesId, plantedDate, createdBy and
\* harvestInfo of the stored lot as they were, whatever its body holds.
C27_UpdateKeepsIdentity ==
    [][(Answered /\ resp'.op = "updateLot") =>
          \A id \in DOMAIN lots :
              \A k \in FixedAtCreation : lots'[id][k] = lots[id][k]
      ]_vars

\* an updateLot whose body named another lotId, species, planted date,
\* creator and harvest changed the zone of a lot that had been harvested
\* after the handler read it
C27_Witness ==
    /\ resp.op = "updateLot"
    /\ "lotId" \in DOMAIN resp.body
    /\ lots[resp.id].zone = "Z2"
    /\ lots[resp.id].lotId = <<"A">>
    /\ lots[resp.id].harvestInfo.isHarvested
    /\ Defined(lots[resp.id].harvestInfo.yield.quantity)

\* ------------------------------------- the four readiness computations

\* plantSpeciesSchema.methods.isReadyForHarvest(plantingDate, currentHeight)
\* on species document sp at time t
SpeciesIsReadyForHarvest(sp, plantingDate, currentHeight, t) ==
    /\ (t - plantingDate) \div DayMs >= sp.harvestDays
    /\ currentHeight >= sp.minHeight

\* the dashboard page: a fixed minimum of days
DashboardMinimumDays == 90

\* isReadyForHarvest(lot) of the dashboard page, lot being the JSON of a lot
\* with speciesId populated
DashboardIsReadyForHarvest(lot, sp, t) ==
    /\ (t - lot.plantedDate) \div DayMs >= DashboardMinimumDays
    /\ lot.currentHeight >= sp.minHeight

\* isReadyForHarvest(lot) of the update page
UpdatePageIsReadyForHarvest(lot, sp, t) ==
    /\ (t - lot.plantedDate) \div DayMs >= sp.harvestDays
    /\ lot.currentHeight >= sp.minHeight

\* the four computations evaluated at one instant on the lot p holds, whose
\* species is resolved
CallAllReadiness(p) ==
    /\ doc[p] # <<>>
    /\ doc[p][1].pop = "doc"
    /\ LET d == doc[p][1]
           sp == species[d.lot.speciesId]
           m == IsReadyForHarvest(d, now)
       IN  resp' = Answer([op |-> "readiness", id |-> d.lot._id, at |-> now,
                           lotThrew |-> m.threw, lot |-> m.value,
                           species |-> SpeciesIsReadyForHarvest(sp, d.lot.plantedDate,
                                                                d.lot.currentHeight, now),
                           dashboard |-> DashboardIsReadyForHarvest(d.lot, sp, now),
                           updatePage |-> UpdatePageIsReadyForHarvest(d.lot, sp, now)])
    /\ UNCHANGED <<now, species, lots, nextId, doc, pend, users, udoc>>

\* species needing one or two days; the clock of the model does not run to
\* the dashboard's minimum of days
AgreeSpeciesInputs ==
    [name : {"Tea"}, code : {<<"t">>}, minHeight : {0, 1}, harvestDays : {1, 2},
     createdBy : {"u1"}]

AgreeLotInputs ==
    [lotId : {<<"a">>, <<"b">>}, speciesId : DOMAIN species, plantedDate : {0},
     zone : {"Z1"}, locationId : {"L1"}, currentHeight : {0, 1},
     diameter : {NoNum}, healthStatus : {Undefined}, photos : {<<>>},
     createdBy : {"u1"}]

NextAgree ==
    \/ Tick
    \/ \E f \in AgreeSpeciesInputs : PlantSpeciesCreate(f)
    \/ \E f \in AgreeLotInputs : PlantLotCreate(f)
    \/ \E id \in DOMAIN lots : LoadLot(1, id, ThresholdFields)
    \/ CallAllReadiness(1)

SpecAgree == Init /\ [][NextAgree]_vars

\* C28: evaluated at one instant on a lot with a resolved species, the four
\* readiness computations return the same boolean.
C28_ReadinessAgrees ==
    resp.op = "readiness" =>
        /\ ~resp.lotThrew
        /\ resp.lot = resp.species
        /\ resp.species = resp.dashboard
        /\ resp.dashboard = resp.updatePage

\* without the dashboard: the species method and the update page agree, and
\* the lot method agrees with them whenever it returns
C28_ThreeAgree ==
    resp.op = "readiness" =>
        /\ resp.species = resp.updatePage
        /\ ~resp.lotThrew => resp.lot = resp.species

\* the dashboard alone differing: the lot method returns true and the
\* dashboard false
C28_DashboardDiffers ==
    /\ resp.op = "readiness"
    /\ ~resp.lotThrew
    /\ resp.lot /\ resp.species /\ resp.updatePage
    /\ ~resp.dashboard

\* ---------------------------------- specification: readiness after a harvest

AfterSpeciesInputs ==
    [name : {"Tea"}, code : {<<"t">>}, minHeight : {1}, harvestDays : {1},
     createdBy : {"u1"}]

AfterLotInputs ==
    [lotId : {<<"a">>, <<"b">>}, speciesId : DOMAIN species, plantedDate : {0},
     zone : {"Z1"}, locationId : {"L1"}, currentHeight : {0, 1},
     diameter : {NoNum}, healthStatus : {Undefined}, photos : {<<>>},
     createdBy : {"u1"}]

NextAfter ==
    \/ Tick
    \/ \E f \in AfterSpeciesInputs : PlantSpeciesCreate(f)
    \/ \E f \in AfterLotInputs : PlantLotCreate(f)
    \/ \E id \in DOMAIN lots : LoadLot(1, id, ThresholdFields)
    \/ Harvest(1, "u1", Some(5), Undefined, "standard")
    \/ FindReadyForHarvest

SpecAfter == Init /\ [][NextAfter]_vars

\* C29: findReadyForHarvest never returns a lot whose stored
\* harvestInfo.isHarvested is true.
C29_HarvestedNotReported ==
    [][(Answered /\ resp'.op = "findReadyForHarvest") =>
          \A i \in resp'.ids : ~lots[i].harvestInfo.isHarvested
      ]_vars

\* the lots a harvest has succeeded on and the lots still to harvest are
\* reported alike: the answer is the ready active lots, harvested or not
C29_ReportsReadyLots ==
    [][(Answered /\ resp'.op = "findReadyForHarvest") =>
          resp'.ids = {i \in DOMAIN lots :
                          lots[i].isActive /\ ReadyAgainstSpecies(lots[i], now)}
      ]_vars

\* a harvested lot in the answer
C29_HarvestedReported ==
    /\ resp.op = "findReadyForHarvest"
    /\ \E i \in resp.ids : i \in DOMAIN lots /\ lots[i].harvestInfo.isHarvested

\* ------------------------------------------------ specification: statistics

\* $avg over the documents of S: the sum and the number of the values that
\* are present (a missing value is skipped); the average is sum / of, and
\* null when of = 0
RECURSIVE SumPresent(_, _)
SumPresent(S, f) ==
    IF S = {} THEN 0
    ELSE LET i == CHOOSE j \in S : TRUE
         IN  (IF Defined(f[i]) THEN Val(f[i]) ELSE 0) + SumPresent(S \ {i}, f)

Avg(S, f) ==
    [sum |-> SumPresent(S, f), of |-> Cardinality({i \in S : Defined(f[i])})]

\* the number 0 of the fallback overview
AvgZero == [sum |-> 0, of |-> 1]

\* the first aggregate of getLotStats: one group over all documents of the
\* collection ls, none when the collection is empty
StatsCountsGoodAndDiseased(ls) ==
    IF DOMAIN ls = {} THEN <<>>
    ELSE <<[totalLots |-> Cardinality(DOMAIN ls),
            healthyLots |-> Cardinality({i \in DOMAIN ls : ls[i].healthStatus = "good"}),
            sickLots |-> Cardinality({i \in DOMAIN ls : ls[i].healthStatus = "diseased"}),
            avgHeight |-> Avg(DOMAIN ls, [i \in DOMAIN ls |-> Some(ls[i].currentHeight)]),
            avgDiameter |-> Avg(DOMAIN ls, [i \in DOMAIN ls |-> ls[i].diameter])]>>

Stats(ls) ==
    IF DOMAIN ls = {} THEN <<>>
    ELSE <<[totalLots |-> Cardinality(DOMAIN ls),
            healthyLots |-> Cardinality({i \in DOMAIN ls : ls[i].healthStatus = "healthy"}),
            sickLots |-> Cardinality({i \in DOMAIN ls : ls[i].healthStatus = "sick"}),
            avgHeight |-> Avg(DOMAIN ls, [i \in DOMAIN ls |-> Some(ls[i].currentHeight)]),
            avgDiameter |-> Avg(DOMAIN ls, [i \in DOMAIN ls |-> ls[i].diameter])]>>

\* the second aggregate: one group per zone
ZoneStats(ls) ==
    {LET Z == {i \in DOMAIN ls : ls[i].zone = z}
     IN  [_id |-> z, count |-> Cardinality(Z),
          avgHeight |-> Avg(Z, [i \in Z |-> Some(ls[i].currentHeight)])]
     : z \in {ls[i].zone : i \in DOMAIN ls}}

\* getLotStats; failed: an aggregate rejects
GetLotStats(user, failed) ==
    /\ resp' = Answer(
          IF failed
          THEN [op |-> "getLotStats", status |-> 500, success |-> FALSE,
                message |-> "Error fetching lot statistics", user |-> user]
          ELSE [op |-> "getLotStats", status |-> 200, success |-> TRUE,
                data |-> [overview |-> IF Stats(lots) # <<>> THEN Stats(lots)[1]
                                       ELSE [totalLots |-> 0, healthyLots |-> 0,
                                             sickLots |-> 0, avgHeight |-> AvgZero,
                                             avgDiameter |-> AvgZero],
                          zoneStats |-> ZoneStats(lots)],
                user |-> user])
    /\ UNCHANGED <<users, udoc, now, species, lots, nextId, doc, pend>>

StatsSpeciesInputs ==
    [name : {"Tea"}, code : {<<"t">>}, minHeight : {1}, harvestDays : {1},
     createdBy : {"u1"}]

\* lots of every status of the enumeration, of the default status, and of the
\* two statuses getLotStats counts; a taller lot of a second zone
StatsLotInputs ==
    [lotId : {<<"a">>, <<"b">>}, speciesId : DOMAIN species, plantedDate : {0},
     zone : {"Z1"}, locationId : {"L1"}, currentHeight : {0},
     diameter : {NoNum},
     healthStatus : HealthStatuses \cup {Undefined, "healthy", "sick"},
     photos : {<<>>}, createdBy : {"u1"}]
    \cup
    [lotId : {<<"a">>, <<"b">>}, speciesId : DOMAIN species, plantedDate : {0},
     zone : {"Z2"}, locationId : {"L1"}, currentHeight : {2},
     diameter : {Some(1)}, healthStatus : {"diseased"},
     photos : {<<>>}, createdBy : {"u1"}]

StatsUpdateBodies ==
    {[NoUpdate EXCEPT !.healthStatus = h] : h \in {"healthy", "sick", "poor"}}

StatsUser == Protect([kind |-> "valid", userId |-> "u1", role |-> UserRole["u1"]]).user

NextStats ==
    \/ \E f \in StatsSpeciesInputs : PlantSpeciesCreate(f)
    \/ \E f \in StatsLotInputs : PlantLotCreate(f)
    \/ \E id \in 1..MaxLots, b \in StatsUpdateBodies : UpdateLot(StatsUser, id, b)
    \/ \E id \in 1..MaxLots : DeleteLot(StatsUser, id)
    \/ \E failed \in BOOLEAN : GetLotStats(StatsUser, failed)

SpecStats == Init /\ [][NextStats]_vars

\* C30: the overview getLotStats reports has healthyLots = 0 and sickLots = 0
\* however many lots are stored, and its totalLots is the number of stored
\* lots.
C30_NoHealthyNoSick ==
    [][(Answered /\ resp'.op = "getLotStats" /\ resp'.status = 200) =>
          /\ resp'.data.overview.healthyLots = 0
          /\ resp'.data.overview.sickLots = 0
          /\ resp'.data.overview.totalLots = Cardinality(DOMAIN lots)
      ]_vars

\* statistics of two stored lots, one of them diseased and one good
C30_Witness ==
    /\ resp.op = "getLotStats"
    /\ resp.status = 200
    /\ resp.data.overview.totalLots = 2
    /\ resp.data.overview.healthyLots = 0
    /\ resp.data.overview.sickLots = 0
    /\ \E i, j \in DOMAIN lots :
          lots[i].healthStatus = "good" /\ lots[j].healthStatus = "diseased"

====
